---- MODULE Spec2Model ----
(***************************************************************************)
(* bo3-client: the Instance Tree (engine/shared/instances) and the Network *)
(* Manager (engine/shared/network), with the event drain loop of           *)
(* cmd/bo3server.                                                          *)
(***************************************************************************)
EXTENDS Integers, Sequences, FiniteSets, TLC

\* ------------------------------------------------------------------------
\* Bounds
\* ------------------------------------------------------------------------
MaxNodes == 3        \* nodes the writer may allocate in SpecTree (Create and Clone)
MaxSource == 3       \* nodes the writer makes through the factory in SpecClone
MaxConns == 2        \* connections dialed to the server
MaxFrames == 3       \* frames (and malformed headers) the peers send in all
EventsBuf == 2       \* the largest eventsBuf given to NewNetworkManager
MaxSenders == 2      \* tasks that call SendPacket on one connection at the same time
MaxMovers == 2       \* tasks that call SetParent at the same time
MaxWalk == 4         \* nodes of the trees the recursive reads are tried on

\* ------------------------------------------------------------------------
\* Instance Tree: state
\* ------------------------------------------------------------------------
VARIABLES
    kind,        \* node -> concrete Go type: "Base", "Werkzeug", "Part" ("free": not allocated)
    className,   \* BaseInstance.className
    name,        \* BaseInstance.name
    parent,      \* BaseInstance.parent: an Instance interface value (a reference) or Nil
    children,    \* BaseInstance.children: sequence of nodes (always held as *BaseInstance)
    nextNode,    \* next unallocated node of the pool
    proc,        \* the writer: "running", "hung" (blocked on a mutex it holds), "crashed" (stack overflow or nil dereference)
    last,        \* the writer's last completed or attempted call
    root,        \* instanceManager.root of the manager the writer uses
    factory,     \* the last call to a manager with one registered constructor: input and result
    sp,          \* a SetParent call taken statement by statement: receiver, argument, old parent, position
    reader,      \* a second thread: the GetChildren snapshots it took during that call
    localId,     \* BaseInstance.localId
    nodeMu,      \* node -> the task that holds BaseInstance.mu of the node
    mv           \* task -> its SetParent call: receiver, argument, position

moveVars == <<nodeMu, mv>>
treeVars == <<kind, className, name, parent, children, nextNode, proc, last, root, factory,
              sp, reader, localId, moveVars>>

\* ------------------------------------------------------------------------
\* Network Manager: state
\* ------------------------------------------------------------------------
\* Manager 0 is the server; manager c > 0 is the client that dials connection c.
\* A receive loop is <<"S", c>> (the server's, for connection c) or <<"C", c>>
\* (the client's own).
VARIABLES
    listening,   \* the server's listener is bound and its accept loop runs
    handlers,    \* the server's nm.handlers: pktKey -> handler
    link,        \* connection -> "free", "dialed" (waiting in the listener), "open" (accepted)
    srvShut,     \* connection -> the server's end is closed
    cliShut,     \* connection -> the peer's end is closed
    up,          \* connection -> bytes written by the peer, not yet read by the server
    down,        \* connection -> bytes written by the server, not yet read by the peer
    clients,     \* the server's nm.clients registry
    rl,          \* receive loop -> its position, the length it read, the event it holds
    capacity,    \* cap(nm.Events), the same for every manager
    events,      \* manager -> the content of its Events channel
    cancelled,   \* manager -> nm.ctx is cancelled
    cons,        \* the owning thread of the server: its position in the drain loop
    inHandler,   \* the threads that are inside a handler
    app,         \* connection -> the peer: "idle", "raw" (a bare socket), "handshake", "ready", "closing"
    snd,         \* connection -> the peer's SendPacket in progress: frame and next write
    sent,        \* connection -> the frames the peer began to send, in order
    upLog,       \* connection -> every byte the peer wrote
    pushed,      \* the events pushed on the server's Events, in order
    handled,     \* the events given to InvokeHandler, in order, with the handler found
    closing,     \* manager -> its position in nm.Close(): "none", "cancelled", "wait", "returned"
    closed,      \* manager -> close(nm.Events) has been executed
    again,       \* manager -> a second nm.Close(): its position, and the goroutine it started
    sendMu,      \* send mutex -> the thread that holds it
    tasks,       \* sender task -> the mutex it sends under, its frame, its next write
    replies      \* connection -> the frames tasks began to send on its ClientConn, in order

closeVars == <<closing, closed, again>>
sendVars == <<sendMu, tasks, replies>>
netVars == <<listening, handlers, link, srvShut, cliShut, up, down, clients, rl,
             capacity, events, cancelled, cons, inHandler, app, snd, sent, upLog, pushed, handled,
             closeVars, sendVars>>

\* The node pool: room for MaxSource nodes and a clone of each.
PoolSize ==
    IF 2 * MaxSource > MaxNodes
    THEN (IF 2 * MaxSource > MaxWalk THEN 2 * MaxSource ELSE MaxWalk)
    ELSE (IF MaxNodes > MaxWalk THEN MaxNodes ELSE MaxWalk)
NodeIds == 1..PoolSize
Allocated == 1..(nextNode - 1)

\* An Instance interface value: the node it points to and the dynamic type it
\* carries ("base": *BaseInstance, "concrete": *Werkzeug or *Part).
Nil == [node |-> 0, view |-> "nil"]
BaseRef(n) == [node |-> n, view |-> "base"]
ConcreteRef(n) == [node |-> n, view |-> "concrete"]

\* The handle a constructor returns for a node of Go type k.
CtorRef(k, n) == IF k = "Base" THEN BaseRef(n) ELSE ConcreteRef(n)

\* parent.(*BaseInstance): the type assertion of SetParent and Destroy.
IsBaseInstance(ref) == ref.view = "base"

\* The references a caller can hold to node n of heap h: what the factory
\* returned and, for an embedding type, the embedded base that child lists hold.
RefsOf(h, n) == {CtorRef(h.kind[n], n), BaseRef(n)}

\* The heap as one value, so that the methods can be composed.
Heap == [kind |-> kind, className |-> className, name |-> name,
         parent |-> parent, children |-> children, next |-> nextNode]

\* ------------------------------------------------------------------------
\* Constructors and the factory
\* ------------------------------------------------------------------------
\* NewBaseInstance(className)
NewBaseInstance(cls) == [kind |-> "Base", name |-> cls, className |-> cls, kids |-> "made"]

\* NewWerkzeug()
NewWerkzeug == [kind |-> "Werkzeug", name |-> "werkzeug", className |-> "Workspace",
                kids |-> "made"]

\* NewPart()
NewPart == [kind |-> "Part", name |-> "ExamplePart", className |-> "Part", kids |-> "made"]

\* What a registered constructor (InstanceConstructor) hands back: a pointer to
\* a new object ("node"), the nil interface ("nil"), or a nil pointer of the
\* object's Go type wrapped in a non-nil interface ("typednil").
Returns(obj) == [ret |-> "node", obj |-> obj]

\* The registry of datamodel.Manager after InitManager.
Registry ==
    [c \in {"Instance", "Workspace", "DataModel", "Part"} |->
        CASE c = "Instance" -> Returns(NewBaseInstance("Instance"))
          [] c = "Workspace" -> Returns(NewWerkzeug)
          [] c = "DataModel" -> Returns(NewBaseInstance("DataModel"))
          [] c = "Part" -> Returns(NewPart)]

\* The registry of the package-level DefaultInstanceManager (used by Clone):
\* NewInstanceManager registers "Instance" only.
DefaultRegistry ==
    [c \in {"Instance"} |-> Returns(NewBaseInstance("Instance"))]

\* Class names the writer asks the factory for in SpecTree; "Nope" is not
\* registered. A *Werkzeug can be passed both as itself and as its embedded
\* *BaseInstance, so it shows what a plain node shows and more (Clone adds
\* plain nodes).
ClassNames == {"Workspace", "Nope"}
\* Class names and names the writer uses when it builds a tree to clone: one
\* class DefaultInstanceManager can construct, one it cannot.
NamedClassNames == {"Instance", "Part"}
Names == {"A", "B"}

\* Put a freshly constructed object at the next free node.
Allocate(h, obj) ==
    [h EXCEPT !.kind[h.next] = obj.kind,
              !.className[h.next] = obj.className,
              !.name[h.next] = obj.name,
              !.parent[h.next] = Nil,
              !.children[h.next] = <<>>,
              !.next = h.next + 1]

\* The object part of a constructor that returns no object.
NoObj == [kind |-> "none", name |-> "", className |-> "", kids |-> "nil"]

\* The backfill of Create: it runs only when inst.(*BaseInstance) succeeds, so
\* an object of an embedding type keeps the fields its constructor left unset.
Backfill(obj, cls) ==
    IF obj.kind = "Base"
    THEN [obj EXCEPT !.kids = "made",
                     !.className = IF @ = "" THEN cls ELSE @]
    ELSE obj

\* instanceManager.Create on registry reg, before the object is placed:
\* out = "nil" (no constructor, or inst == nil), "node", "typednil" (a nil
\* *Werkzeug or *Part is not equal to the nil interface and is returned), or
\* "panic" (a nil *BaseInstance passes the type assertion and b.children
\* dereferences it).
instanceManagerCreate(reg, cls) ==
    IF cls \notin DOMAIN reg THEN [out |-> "nil", obj |-> NoObj]
    ELSE LET ctor == reg[cls]
         IN  CASE ctor.ret = "nil" -> [out |-> "nil", obj |-> NoObj]
               [] ctor.ret = "typednil" ->
                    [out |-> IF ctor.obj.kind = "Base" THEN "panic" ELSE "typednil",
                     obj |-> NoObj]
               [] OTHER -> [out |-> "node", obj |-> Backfill(ctor.obj, cls)]

\* instanceManager.Create on registry reg: [h, res]; res = Nil when the class
\* is not registered.
CreateOp(h, reg, cls) ==
    LET r == instanceManagerCreate(reg, cls)
    IN  IF r.out = "node"
        THEN [h |-> Allocate(h, r.obj), res |-> CtorRef(r.obj.kind, h.next)]
        ELSE [h |-> h, res |-> Nil]

\* ------------------------------------------------------------------------
\* BaseInstance methods
\* ------------------------------------------------------------------------
\* The index of the first occurrence of c in sequence s (0: none).
IndexOf(s, c) ==
    IF \E i \in 1..Len(s) : s[i] = c
    THEN CHOOSE i \in 1..Len(s) : s[i] = c /\ \A j \in 1..(i - 1) : s[j] # c
    ELSE 0

\* removeChild that leaves the list as it is.
removeChildNothing(h, p, c) == h
\* BaseInstance.removeChild: drops the first occurrence only.
removeChild(h, p, c) ==
    LET s == h.children[p]
        i == IndexOf(s, c)
    IN  IF i = 0 THEN h
        ELSE [h EXCEPT !.children[p] = SubSeq(s, 1, i - 1) \o SubSeq(s, i + 1, Len(s))]

\* BaseInstance.addChild
addChild(h, p, c) == [h EXCEPT !.children[p] = Append(@, c)]

\* SetParent, first half: detach from the old parent and set the back-reference.
\* With an old parent that is not a *BaseInstance the rebuilt list is dropped
\* (the second type assertion fails as the first did).
SetParentDetach(h, b, ref) ==
    LET old == h.parent[b]
        h1 == IF old # Nil /\ IsBaseInstance(old) THEN removeChild(h, old.node, b) ELSE h
    IN  [h1 EXCEPT !.parent[b] = ref]

\* b.mu is held for the whole call and Go's mutex is not reentrant: the call
\* blocks for ever when the old or the new parent is b's own *BaseInstance.
SetParentBlocks(h, b, ref) ==
    \/ (h.parent[b] # Nil /\ IsBaseInstance(h.parent[b]) /\ h.parent[b].node = b)
    \/ (ref # Nil /\ IsBaseInstance(ref) /\ ref.node = b)

\* BaseInstance.SetParent (a call that returns).
SetParentOp(h, b, ref) ==
    LET h2 == SetParentDetach(h, b, ref)
    IN  IF ref # Nil /\ IsBaseInstance(ref) THEN addChild(h2, ref.node, b) ELSE h2

\* BaseInstance.GetChildren: a copy of the list.
GetChildren(h, b) == h.children[b]

ChildSet(h, n) == {h.children[n][i] : i \in 1..Len(h.children[n])}

\* Nodes reachable from the nodes of S through child lists, S included.
RECURSIVE ReachFrom(_, _)
ReachFrom(h, S) ==
    LET T == S \cup UNION {ChildSet(h, n) : n \in S}
    IN  IF T = S THEN S ELSE ReachFrom(h, T)

\* The recursive walks (Destroy, Clone, GetDescendants) visit b, its children,
\* their children, ...: Revisits holds when a walk from b, having come through
\* the nodes of path, meets one of them again, and the recursion never ends.
RECURSIVE Revisits(_, _, _)
Revisits(h, b, path) ==
    \/ b \in path
    \/ \E c \in ChildSet(h, b) : Revisits(h, c, path \cup {b})
Cyclic(h, b) == Revisits(h, b, {})

\* BaseInstance.Destroy
RECURSIVE DestroyOp(_, _), DestroyAll(_, _)
DestroyAll(h, cs) ==
    IF cs = <<>> THEN h ELSE DestroyAll(DestroyOp(h, Head(cs)), Tail(cs))

\* Destroy that forgets to take the node out of its parent's list.
DestroyOpKeepsLink(h, b) ==
    LET h1 == DestroyAll(h, h.children[b])
    IN  [h1 EXCEPT !.parent[b] = Nil, !.children[b] = <<>>]
DestroyOp(h, b) ==
    LET h1 == DestroyAll(h, h.children[b])
        p == h1.parent[b]
        h2 == IF p # Nil /\ IsBaseInstance(p) THEN removeChild(h1, p.node, b) ELSE h1
    IN  [h2 EXCEPT !.parent[b] = Nil, !.children[b] = <<>>]

\* BaseInstance.Clone: [h, res]. The new node comes from DefaultInstanceManager,
\* or from NewBaseInstance when that manager has no constructor for the class.
RECURSIVE CloneOp(_, _), CloneChildren(_, _, _)
CloneChildren(h, cs, inst) ==
    IF cs = <<>> THEN h
    ELSE LET r == CloneOp(h, Head(cs))
         IN  CloneChildren(SetParentOp(r.h, r.res.node, inst), Tail(cs), inst)

\* Clone that forgets inst.SetName(b.name).
CloneOpDefaultName(h, b) ==
    LET made == CreateOp(h, DefaultRegistry, h.className[b])
        c == IF made.res = Nil
             THEN [h |-> Allocate(h, NewBaseInstance(h.className[b])),
                   res |-> BaseRef(h.next)]
             ELSE made
    IN  [h |-> CloneChildren(c.h, GetChildren(c.h, b), c.res), res |-> c.res]
CloneOp(h, b) ==
    LET made == CreateOp(h, DefaultRegistry, h.className[b])
        c == IF made.res = Nil
             THEN [h |-> Allocate(h, NewBaseInstance(h.className[b])),
                   res |-> BaseRef(h.next)]
             ELSE made
        h1 == [c.h EXCEPT !.name[c.res.node] = h.name[b]]
    IN  [h |-> CloneChildren(h1, GetChildren(h1, b), c.res), res |-> c.res]

\* A GetDescendants that returns the children only
GetDescendantsShallow(h, b) == h.children[b]

\* BaseInstance.GetDescendants: pre-order, the node itself excluded.
RECURSIVE GetDescendants(_, _), DescendantsOfAll(_, _)
DescendantsOfAll(h, cs) ==
    IF cs = <<>> THEN <<>>
    ELSE <<Head(cs)>> \o GetDescendants(h, Head(cs)) \o DescendantsOfAll(h, Tail(cs))
GetDescendants(h, b) == DescendantsOfAll(h, h.children[b])

Range(s) == {s[i] : i \in 1..Len(s)}
Count(s, x) == Cardinality({i \in 1..Len(s) : s[i] = x})

\* b.this, the back-reference to the concrete type: NewPart and NewWerkzeug
\* set it to the object they make, NewBaseInstance leaves it nil.
This(h, b) == IF h.kind[b] = "Base" THEN Nil ELSE ConcreteRef(b)

\* BaseInstance.GetAllOfType: b.this when b's class matches, then the results
\* of the children in list order (a child list holds *BaseInstance values, so
\* the recursion is the method's own).
RECURSIVE GetAllOfType(_, _, _), AllOfTypeOfAll(_, _, _)
AllOfTypeOfAll(h, cs, cls) ==
    IF cs = <<>> THEN <<>>
    ELSE GetAllOfType(h, Head(cs), cls) \o AllOfTypeOfAll(h, Tail(cs), cls)
GetAllOfType(h, b, cls) ==
    (IF h.className[b] = cls THEN <<This(h, b)>> ELSE <<>>)
        \o AllOfTypeOfAll(h, h.children[b], cls)

\* b.this.(*Part): the assertion holds when b.this points to a Part
IsPart(h, ref) == ref # Nil /\ h.kind[ref.node] = "Part"

\* BaseInstance.GetRenderables: b.this when b's class is "Part" and b.this is
\* a non-nil *Part, then the results of the children in list order.
RECURSIVE GetRenderables(_, _), RenderablesOfAll(_, _)
RenderablesOfAll(h, cs) ==
    IF cs = <<>> THEN <<>>
    ELSE GetRenderables(h, Head(cs)) \o RenderablesOfAll(h, Tail(cs))
GetRenderables(h, b) ==
    (IF h.className[b] = "Part" /\ IsPart(h, This(h, b)) THEN <<This(h, b)>> ELSE <<>>)
        \o RenderablesOfAll(h, h.children[b])

\* Number of nodes Clone allocates for b (one per node visited).
SubtreeSize(h, b) == 1 + Len(GetDescendants(h, b))

\* ------------------------------------------------------------------------
\* Instance Tree: the single writer's calls
\* ------------------------------------------------------------------------
InstallHeap(h) ==
    /\ kind' = h.kind
    /\ className' = h.className
    /\ name' = h.name
    /\ parent' = h.parent
    /\ children' = h.children
    /\ nextNode' = h.next
    /\ UNCHANGED <<netVars, localId>>

\* A call that touches neither the manager's root nor the one-constructor manager.
Install(h) == InstallHeap(h) /\ UNCHANGED <<root, factory, sp, reader, moveVars>>

\* The nodes of b's subtree, b included.
Subtree(h, b) == ReachFrom(h, {b})

\* A record of the writer's last call: the receiver a, the argument ref, the
\* result res, and from the state before the call a's parent (old, for
\* Destroy) and the nodes of a's subtree (sub, for Destroy and Clone); path is
\* the argument of FindByPath.
Call(op, a, ref, res) ==
    [op |-> op, a |-> a, ref |-> ref, res |-> res,
     old |-> IF op = "Destroy" THEN parent[a] ELSE Nil,
     sub |-> IF op \in {"Destroy", "Clone"} THEN Subtree(Heap, a) ELSE {},
     path |-> <<>>, cls |-> "", out |-> <<>>]

NoCall == [op |-> "none", a |-> 0, ref |-> Nil, res |-> Nil, old |-> Nil, sub |-> {},
           path |-> <<>>, cls |-> "", out |-> <<>>]

\* No call made yet on the one-constructor manager.
NoMade == [op |-> "none", cls |-> "", ctor |-> [ret |-> "nil", obj |-> NoObj], nm |-> "",
           out |-> "nil", obj |-> NoObj]

\* No SetParent call is being taken statement by statement.
NoMove == [a |-> 0, ref |-> Nil, old |-> Nil, pc |-> "idle"]

\* The tasks that call SetParent at the same time; no task holds a mutex;
\* a task that has made no call
Movers == 1..MaxMovers
Unlocked == 0
NoMover == [a |-> 0, ref |-> Nil, pc |-> "idle"]

TreeInit ==
    /\ kind = [n \in NodeIds |-> "free"]
    /\ className = [n \in NodeIds |-> ""]
    /\ name = [n \in NodeIds |-> ""]
    /\ parent = [n \in NodeIds |-> Nil]
    /\ children = [n \in NodeIds |-> <<>>]
    /\ nextNode = 1
    /\ proc = "running"
    /\ last = NoCall
    /\ root = Nil
    /\ factory = NoMade
    /\ sp = NoMove
    /\ reader = <<>>
    /\ localId = [n \in NodeIds |-> ""]
    /\ nodeMu = [n \in NodeIds |-> Unlocked]
    /\ mv = [t \in Movers |-> NoMover]

\* m.Create(cls), while fewer than limit nodes exist
Create(cls, limit) ==
    /\ proc = "running"
    /\ nextNode <= limit
    /\ LET r == CreateOp(Heap, Registry, cls)
       IN  /\ Install(r.h)
           /\ last' = Call("Create", 0, Nil, r.res)
    /\ UNCHANGED proc

\* m.CreateNamed(cls, nm), while fewer than limit nodes exist
CreateNamed(cls, nm, limit) ==
    /\ proc = "running"
    /\ nextNode <= limit
    /\ LET r == CreateOp(Heap, Registry, cls)
           h == IF r.res = Nil THEN r.h ELSE [r.h EXCEPT !.name[r.res.node] = nm]
       IN  /\ Install(h)
           /\ last' = Call("CreateNamed", 0, Nil, r.res)
    /\ UNCHANGED proc

\* a.SetParent(ref)
SetParent(a, ref) ==
    /\ proc = "running"
    /\ a \in Allocated
    /\ ref = Nil \/ (ref.node \in Allocated /\ ref \in RefsOf(Heap, ref.node))
    /\ last' = Call("SetParent", a, ref, Nil)
    /\ IF SetParentBlocks(Heap, a, ref)
       THEN /\ proc' = "hung"
            /\ Install(IF parent[a] # Nil /\ IsBaseInstance(parent[a]) /\ parent[a].node = a
                       THEN Heap ELSE SetParentDetach(Heap, a, ref))
       ELSE /\ proc' = "running"
            /\ Install(SetParentOp(Heap, a, ref))

\* a.Destroy()
Destroy(a) ==
    /\ proc = "running"
    /\ a \in Allocated
    /\ last' = Call("Destroy", a, Nil, Nil)
    /\ IF Cyclic(Heap, a)
       THEN /\ proc' = "crashed"
            /\ Install(Heap)
       ELSE /\ proc' = "running"
            /\ Install(DestroyOp(Heap, a))

\* a.Clone(), while the pool has room for the copy up to node limit
Clone(a, limit) ==
    /\ proc = "running"
    /\ a \in Allocated
    /\ IF Cyclic(Heap, a)
       THEN /\ proc' = "crashed"
            /\ Install(Heap)
            /\ last' = Call("Clone", a, Nil, Nil)
       ELSE /\ nextNode + SubtreeSize(Heap, a) - 1 <= limit
            /\ proc' = "running"
            /\ LET r == CloneOp(Heap, a)
               IN  /\ Install(r.h)
                   /\ last' = Call("Clone", a, Nil, r.res)

\* a.SetId(id): the one statement that writes localId. No constructor and no
\* method of the factory writes it, so a node has the zero value "" until then.
SetId(a, id) ==
    /\ proc = "running"
    /\ a \in Allocated
    /\ localId' = [localId EXCEPT ![a] = id]
    /\ last' = Call("SetId", a, Nil, Nil)
    /\ UNCHANGED <<kind, className, name, parent, children, nextNode, proc, root, factory,
                   sp, reader, moveVars, netVars>>

\* The identifiers a caller passes to SetId
Ids == {"", "u1", "u2"}

\* The writer creates nodes of every registered class through the factory of
\* datamodel.Manager and sets identifiers.
IdNext ==
    \/ \E cls \in DOMAIN Registry : Create(cls, MaxNodes)
    \/ \E a \in Allocated, id \in Ids : SetId(a, id)

\* A walk of the writer: the receiver, the class asked for, the slice returned
WalkCall(op, a, cls, out) == [Call(op, a, Nil, Nil) EXCEPT !.cls = cls, !.out = out]

\* One of the recursive reads on node a: it overflows the stack on a cycle
\* of child lists and changes nothing otherwise.
Walk(op, a, cls, out) ==
    /\ proc = "running"
    /\ a \in Allocated
    /\ proc' = IF Cyclic(Heap, a) THEN "crashed" ELSE "running"
    /\ last' = WalkCall(op, a, cls, IF Cyclic(Heap, a) THEN <<>> ELSE out)
    /\ Install(Heap)

\* a.GetDescendants()
CallGetDescendants(a) == Walk("GetDescendants", a, "", GetDescendants(Heap, a))
\* a.GetAllOfType(cls)
CallGetAllOfType(a, cls) == Walk("GetAllOfType", a, cls, GetAllOfType(Heap, a, cls))
\* a.GetRenderables()
CallGetRenderables(a) == Walk("GetRenderables", a, "", GetRenderables(Heap, a))

\* The classes of the nodes the walks are tried on: plain nodes and Parts
WalkClassNames == {"Instance", "Part"}

\* The writer builds a tree of plain nodes and Parts (each node goes under an
\* older one), clones nodes, and calls the two filtered walks on every node.
WalkNext ==
    \/ \E cls \in WalkClassNames : Create(cls, MaxNodes)
    \/ \E a \in Allocated, p \in Allocated :
          p < a /\ parent[a] = Nil /\ SetParent(a, BaseRef(p))
    \/ \E a \in Allocated : Clone(a, MaxNodes)
    \/ \E a \in Allocated, cls \in WalkClassNames : CallGetAllOfType(a, cls)
    \/ \E a \in Allocated : CallGetRenderables(a)

\* The writer builds a larger tree of plain nodes and Parts, each node under
\* an older one and in any order, and calls GetDescendants on every node.
DescendNext ==
    \/ \E cls \in WalkClassNames : Create(cls, MaxWalk)
    \/ \E a \in Allocated, p \in Allocated :
          p < a /\ parent[a] = Nil /\ SetParent(a, BaseRef(p))
    \/ \E a \in Allocated : CallGetDescendants(a)

\* The writer issuing every call on every node with every reference.
TreeNext ==
    \/ \E cls \in ClassNames : Create(cls, MaxNodes)
    \/ \E a \in Allocated, n \in Allocated : \E ref \in RefsOf(Heap, n) : SetParent(a, ref)
    \/ \E a \in Allocated : SetParent(a, Nil)
    \/ \E a \in Allocated : Destroy(a)
    \/ \E a \in Allocated : Clone(a, MaxNodes)

\* The writer building a tree of named nodes of every kind, then cloning one
\* of its nodes.
CloneNext ==
    /\ last.op # "Clone"
    /\ \/ \E cls \in NamedClassNames, nm \in Names : CreateNamed(cls, nm, MaxSource)
       \/ \E a \in Allocated, p \in Allocated :
             a # p /\ parent[a] = Nil /\ SetParent(a, BaseRef(p))
       \/ \E a \in Allocated : Clone(a, PoolSize)

\* ------------------------------------------------------------------------
\* SetParent statement by statement, with a concurrent reader
\* ------------------------------------------------------------------------
\* The writer is inside sp.a.SetParent(sp.ref) and holds sp.a's mutex.
InSetParent == sp.pc \in {"locked", "removed", "set", "added"}

MoveFrame == UNCHANGED <<proc, root, factory, reader, moveVars>>

\* b.mu.Lock() of a.SetParent(ref); the call is not one that blocks on itself.
SPLock(a, ref) ==
    /\ proc = "running" /\ sp.pc = "idle"
    /\ a \in Allocated
    /\ ref = Nil \/ (ref.node \in Allocated /\ ref \in RefsOf(Heap, ref.node))
    /\ ~SetParentBlocks(Heap, a, ref)
    /\ sp' = [a |-> a, ref |-> ref, old |-> parent[a], pc |-> "locked"]
    /\ last' = Call("SetParent", a, ref, Nil)
    /\ InstallHeap(Heap)
    /\ MoveFrame

\* "remove from old parent": pbase.removeChild(b), under the old parent's mutex
SPRemove ==
    /\ sp.pc = "locked"
    /\ InstallHeap(IF sp.old # Nil /\ IsBaseInstance(sp.old)
                   THEN removeChild(Heap, sp.old.node, sp.a) ELSE Heap)
    /\ sp' = [sp EXCEPT !.pc = "removed"]
    /\ UNCHANGED last /\ MoveFrame

\* b.parent = parent
SPSet ==
    /\ sp.pc = "removed"
    /\ InstallHeap([Heap EXCEPT !.parent[sp.a] = sp.ref])
    /\ sp' = [sp EXCEPT !.pc = "set"]
    /\ UNCHANGED last /\ MoveFrame

\* "add to new parent's children list": pbase.addChild(b), under the new parent's mutex
SPAdd ==
    /\ sp.pc = "set"
    /\ InstallHeap(IF sp.ref # Nil /\ IsBaseInstance(sp.ref)
                   THEN addChild(Heap, sp.ref.node, sp.a) ELSE Heap)
    /\ sp' = [sp EXCEPT !.pc = "added"]
    /\ UNCHANGED last /\ MoveFrame

\* the deferred b.mu.Unlock() and the return
SPUnlock ==
    /\ sp.pc = "added"
    /\ sp' = [sp EXCEPT !.pc = "done"]
    /\ InstallHeap(Heap)
    /\ UNCHANGED last /\ MoveFrame

\* The reader's n.GetChildren(): it waits while the writer holds n's mutex
\* (SetParent holds the receiver's for the whole call; removeChild and
\* addChild hold the parent's only inside their own step). The snapshot
\* records the writer's position.
Snapshot(n) ==
    /\ n \in Allocated
    /\ ~(InSetParent /\ sp.a = n)
    /\ reader' = Append(reader, [node |-> n, kids |-> GetChildren(Heap, n), at |-> sp.pc])
    /\ InstallHeap(Heap)
    /\ UNCHANGED <<proc, last, root, factory, sp, moveVars>>

\* The writer builds a tree of plain nodes (each node goes under an older one),
\* then moves one node from its parent to another node, statement by
\* statement, while the reader takes one snapshot of the old parent and one
\* of the new, in either order, at any two points of the call.
ReaderNext ==
    \/ sp.pc = "idle" /\ Create("Instance", MaxNodes)
    \/ \E a \in Allocated, p \in Allocated :
          sp.pc = "idle" /\ p < a /\ parent[a] = Nil /\ SetParent(a, BaseRef(p))
    \/ \E a \in Allocated, n \in Allocated :
          /\ parent[a] # Nil /\ parent[a].node # n
          /\ SPLock(a, BaseRef(n))
    \/ SPRemove
    \/ SPSet
    \/ SPAdd
    \/ SPUnlock
    \/ \E n \in {sp.old.node, sp.ref.node} :
          /\ InSetParent
          /\ \A i \in 1..Len(reader) : reader[i].node # n
          /\ Snapshot(n)

\* ------------------------------------------------------------------------
\* Concurrent SetParent calls
\* ------------------------------------------------------------------------
\* Each task runs one a.SetParent(ref), statement by statement. b.mu.Lock()
\* of the receiver is taken first and released by defer at the return;
\* removeChild and addChild take the mutex of the node whose list they change
\* and release it when they return.
moverFrame == UNCHANGED <<proc, last, root, factory, sp, reader>>

\* The old parent as removeChild's receiver (0: none, or not a *BaseInstance)
OldBase(a) == IF parent[a] # Nil /\ IsBaseInstance(parent[a]) THEN parent[a].node ELSE 0
\* The new parent as addChild's receiver
NewBase(ref) == IF ref # Nil /\ IsBaseInstance(ref) THEN ref.node ELSE 0

\* The node whose mutex task t asks for in its next statement (0: none)
Wants(t) ==
    CASE mv[t].pc = "called" -> mv[t].a
      [] mv[t].pc = "locked" -> OldBase(mv[t].a)
      [] mv[t].pc = "set" -> NewBase(mv[t].ref)
      [] OTHER -> 0

\* mu.Lock() of node n returns at once
MuFree(n) == IF n = 0 THEN TRUE ELSE nodeMu[n] = Unlocked

\* Task t calls a.SetParent(ref)
MvCall(t, a, ref) ==
    /\ mv[t].pc = "idle"
    /\ a \in Allocated
    /\ mv' = [mv EXCEPT ![t] = [a |-> a, ref |-> ref, pc |-> "called"]]
    /\ InstallHeap(Heap)
    /\ UNCHANGED nodeMu /\ moverFrame

\* b.mu.Lock()
MvLock(t) ==
    /\ mv[t].pc = "called"
    /\ MuFree(mv[t].a)
    /\ nodeMu' = [nodeMu EXCEPT ![mv[t].a] = t]
    /\ mv' = [mv EXCEPT ![t].pc = "locked"]
    /\ InstallHeap(Heap)
    /\ moverFrame

\* "remove from old parent": pbase.removeChild(b) under pbase.mu
MvRemove(t) ==
    /\ mv[t].pc = "locked"
    /\ MuFree(OldBase(mv[t].a))
    /\ InstallHeap(IF OldBase(mv[t].a) # 0
                   THEN removeChild(Heap, OldBase(mv[t].a), mv[t].a) ELSE Heap)
    /\ mv' = [mv EXCEPT ![t].pc = "removed"]
    /\ UNCHANGED nodeMu /\ moverFrame

\* b.parent = parent
MvSet(t) ==
    /\ mv[t].pc = "removed"
    /\ InstallHeap([Heap EXCEPT !.parent[mv[t].a] = mv[t].ref])
    /\ mv' = [mv EXCEPT ![t].pc = "set"]
    /\ UNCHANGED nodeMu /\ moverFrame

\* "add to new parent's children list": pbase.addChild(b) under pbase.mu
MvAdd(t) ==
    /\ mv[t].pc = "set"
    /\ MuFree(NewBase(mv[t].ref))
    /\ InstallHeap(IF NewBase(mv[t].ref) # 0
                   THEN addChild(Heap, NewBase(mv[t].ref), mv[t].a) ELSE Heap)
    /\ mv' = [mv EXCEPT ![t].pc = "added"]
    /\ UNCHANGED nodeMu /\ moverFrame

\* the deferred b.mu.Unlock() and the return
MvUnlock(t) ==
    /\ mv[t].pc = "added"
    /\ nodeMu' = [nodeMu EXCEPT ![mv[t].a] = Unlocked]
    /\ mv' = [mv EXCEPT ![t].pc = "done"]
    /\ InstallHeap(Heap)
    /\ moverFrame

\* No task has called SetParent yet
NoMoves == \A t \in Movers : mv[t].pc = "idle"

\* The writer builds a tree of plain nodes (each node goes under an older
\* one); then every task calls SetParent once, each on a node of its own, with
\* another node or none as the new parent.
MoversNext ==
    \/ NoMoves /\ Create("Instance", MaxNodes)
    \/ \E a \in Allocated, p \in Allocated :
          NoMoves /\ p < a /\ parent[a] = Nil /\ SetParent(a, BaseRef(p))
    \/ \E t \in Movers, a \in Allocated, n \in Allocated :
          /\ nextNode > MaxNodes
          /\ \A u \in Movers : u < t => mv[u].pc # "idle"
          /\ n # a
          /\ \A u \in Movers : mv[u].a # a
          /\ MvCall(t, a, BaseRef(n))
    \/ \E t \in Movers : MvLock(t)
    \/ \E t \in Movers : MvRemove(t)
    \/ \E t \in Movers : MvSet(t)
    \/ \E t \in Movers : MvAdd(t)
    \/ \E t \in Movers : MvUnlock(t)

\* ------------------------------------------------------------------------
\* The manager's root and FindByPath
\* ------------------------------------------------------------------------
\* A string is a sequence of symbols: the separator "." and words that hold no
\* separator. A node's name is one word.
Dot == "."
Str(nm) == <<nm>>

\* strings.Split(s, "."): the pieces between the separators, empty ones kept.
RECURSIVE Split(_)
Split(s) ==
    LET i == IndexOf(s, Dot)
    IN  IF i = 0 THEN <<s>>
        ELSE <<SubSeq(s, 1, i - 1)>> \o Split(SubSeq(s, i + 1, Len(s)))

\* r + "." + p
Dotted(r, p) == r \o <<Dot>> \o p

\* BaseInstance.FindFirstChild: the first child, in list order, whose name is nm.
FindFirstChild(h, b, nm) ==
    LET s == h.children[b]
        hits == {i \in 1..Len(s) : Str(h.name[s[i]]) = nm}
    IN  IF hits = {} THEN Nil
        ELSE BaseRef(s[CHOOSE i \in hits : \A j \in hits : i <= j])

\* The loop of FindByPath over parts[1:].
RECURSIVE Descend(_, _, _)
Descend(h, cur, parts) ==
    IF parts = <<>> \/ cur = Nil THEN cur
    ELSE Descend(h, FindFirstChild(h, cur.node, Head(parts)), Tail(parts))

\* FindByPath that always looks for the first segment among the root's children.
FindByPathChildrenOnly(h, r, path) ==
    IF path = <<>> THEN Nil
    ELSE Descend(h, r, Split(path))
\* instanceManager.FindByPath with r the root GetRoot returned.
FindByPathOp(h, r, path) ==
    IF path = <<>> THEN Nil
    ELSE LET parts == Split(path)
             cur == IF Str(h.name[r.node]) # Head(parts)
                    THEN FindFirstChild(h, r.node, Head(parts))
                    ELSE r
         IN  Descend(h, cur, Tail(parts))

\* Names the writer gives to the nodes of a tree it looks paths up in.
PathNames == {"Root", "A", "B"}

\* The paths asked for: the empty string, one name, two names with a dot.
Paths ==
    {<<>>} \cup {Str(nm) : nm \in PathNames}
           \cup {Dotted(Str(n1), Str(n2)) : n1 \in PathNames, n2 \in PathNames}

CallPath(op, path, res) == [Call(op, 0, Nil, res) EXCEPT !.path = path]

\* m.SetRoot(ref)
SetRoot(ref) ==
    /\ proc = "running"
    /\ ref.node \in Allocated /\ ref \in RefsOf(Heap, ref.node)
    /\ root' = ref
    /\ last' = Call("SetRoot", 0, ref, Nil)
    /\ InstallHeap(Heap)
    /\ UNCHANGED <<proc, factory, sp, reader, moveVars>>

\* m.GetRoot() blocks for ever when no root is set: it holds m.mu.Lock() and
\* calls CreateNamed, whose Create asks for m.mu.RLock() on the same RWMutex.
GetRootBlocks == root = Nil

\* m.GetRoot()
GetRoot ==
    /\ proc = "running"
    /\ last' = Call("GetRoot", 0, Nil, root)
    /\ proc' = IF GetRootBlocks THEN "hung" ELSE "running"
    /\ InstallHeap(Heap)
    /\ UNCHANGED <<root, factory, sp, reader, moveVars>>

\* m.FindByPath(path)
FindByPath(path) ==
    /\ proc = "running"
    /\ IF path # <<>> /\ GetRootBlocks
       THEN /\ proc' = "hung"
            /\ last' = CallPath("FindByPath", path, Nil)
       ELSE /\ proc' = "running"
            /\ last' = CallPath("FindByPath", path, FindByPathOp(Heap, root, path))
    /\ InstallHeap(Heap)
    /\ UNCHANGED <<root, factory, sp, reader, moveVars>>

\* The writer building a tree of named plain nodes (each node goes under an
\* older one), making one of them the root, and asking for the root and for
\* paths.
PathNext ==
    \/ \E nm \in PathNames : CreateNamed("Instance", nm, MaxNodes)
    \/ \E a \in Allocated, p \in Allocated :
          p < a /\ parent[a] = Nil /\ SetParent(a, BaseRef(p))
    \/ \E n \in Allocated : root = Nil /\ SetRoot(BaseRef(n))
    \/ GetRoot
    \/ \E path \in Paths : FindByPath(path)

\* BaseInstance.GetFullName (a call that returns): b.name when b has no
\* parent, else the parent's full name, a dot, and b.name
RECURSIVE GetFullName(_, _)
GetFullName(h, b) ==
    IF h.parent[b] = Nil THEN Str(h.name[b])
    ELSE Dotted(GetFullName(h, h.parent[b].node), Str(h.name[b]))

\* The recursion of GetFullName from b, having come through the nodes of
\* seen, meets one of them again and never ends.
RECURSIVE FullNameLoops(_, _, _)
FullNameLoops(h, b, seen) ==
    \/ b \in seen
    \/ IF h.parent[b] = Nil THEN FALSE
       ELSE FullNameLoops(h, h.parent[b].node, seen \cup {b})

\* m.FindByPath(a.GetFullName()): GetFullName overflows the stack on a cycle
\* of parent references, and FindByPath blocks in GetRoot when no root is set.
FindByFullName(a) ==
    /\ proc = "running"
    /\ a \in Allocated
    /\ IF FullNameLoops(Heap, a, {})
       THEN /\ proc' = "crashed"
            /\ last' = [CallPath("FindByFullName", <<>>, Nil) EXCEPT !.a = a]
       ELSE IF GetRootBlocks
       THEN /\ proc' = "hung"
            /\ last' = [CallPath("FindByFullName", GetFullName(Heap, a), Nil) EXCEPT !.a = a]
       ELSE /\ proc' = "running"
            /\ last' = [CallPath("FindByFullName", GetFullName(Heap, a),
                                 FindByPathOp(Heap, root, GetFullName(Heap, a)))
                          EXCEPT !.a = a]
    /\ InstallHeap(Heap)
    /\ UNCHANGED <<root, factory, sp, reader, moveVars>>

\* The classes of the nodes paths are made of: a plain node, and a Workspace,
\* which the factory hands out as a *Werkzeug
RoundClassNames == {"Instance", "Workspace"}

\* The writer builds a tree of named plain nodes and Workspaces, makes the
\* first of them the root (as InitManager does), puts the others under any
\* other node with every handle it holds and moves them, and looks every
\* node up by its full name.
RoundNext ==
    \/ \E cls \in RoundClassNames, nm \in PathNames : CreateNamed(cls, nm, MaxNodes)
    \/ \E a \in Allocated \ {1}, n \in Allocated :
          \E ref \in RefsOf(Heap, n) : n # a /\ SetParent(a, ref)
    \/ \E ref \in RefsOf(Heap, 1) : 1 \in Allocated /\ root = Nil /\ SetRoot(ref)
    \/ \E a \in Allocated : FindByFullName(a)

\* ------------------------------------------------------------------------
\* The factory with any registered constructor
\* ------------------------------------------------------------------------
Kinds == {"Base", "Werkzeug", "Part"}

\* The constructors a caller may pass to RegisterClass: one that fails with
\* nil, one that returns a nil pointer of each Go type, and one that returns an
\* object of each Go type with its name, its class name and its child list
\* set or left at the zero value.
Ctors ==
    {[ret |-> "nil", obj |-> NoObj]}
    \cup {[ret |-> "typednil", obj |-> [NoObj EXCEPT !.kind = k]] : k \in Kinds}
    \cup {Returns([kind |-> k, name |-> n, className |-> c, kids |-> kd]) :
            k \in Kinds, n \in {"", "tool"}, c \in {"", "Tool"}, kd \in {"nil", "made"}}

\* instanceManager.RegisterClass: overwrites an existing registration.
RegisterClass(reg, cls, ctor) ==
    [c \in DOMAIN reg \cup {cls} |-> IF c = cls THEN ctor ELSE reg[c]]

\* The class names asked for: the registered one and one that is not.
FactoryClassNames == {"Tool", "Nope"}

FactoryCall(op, cls, ctor, nm, r) ==
    [op |-> op, cls |-> cls, ctor |-> ctor, nm |-> nm, out |-> r.out, obj |-> r.obj]

FactoryFrame == UNCHANGED <<kind, className, name, parent, children, nextNode, proc, last,
                            root, sp, reader, localId, moveVars, netVars>>

\* m := NewInstanceManager(); m.RegisterClass("Tool", ctor); m.Create(cls)
CreateWith(ctor, cls) ==
    /\ factory' = FactoryCall("Create", cls, ctor, "",
                              instanceManagerCreate(RegisterClass(DefaultRegistry, "Tool", ctor), cls))
    /\ FactoryFrame

\* instanceManager.CreateNamed on registry reg: inst.SetName(name) on whatever
\* Create returned that is not the nil interface; on a nil pointer SetName
\* dereferences it (b.mu.Lock()).
instanceManagerCreateNamed(reg, cls, nm) ==
    LET r == instanceManagerCreate(reg, cls)
    IN  CASE r.out = "node" -> [r EXCEPT !.obj.name = nm]
          [] r.out = "typednil" -> [r EXCEPT !.out = "panic"]
          [] OTHER -> r

\* m := NewInstanceManager(); m.RegisterClass("Tool", ctor); m.CreateNamed(cls, nm)
CreateNamedWith(ctor, cls, nm) ==
    /\ factory' = FactoryCall("CreateNamed", cls, ctor, nm,
                              instanceManagerCreateNamed(RegisterClass(DefaultRegistry, "Tool", ctor),
                                                         cls, nm))
    /\ FactoryFrame

FactoryNext ==
    \/ \E ctor \in Ctors, cls \in FactoryClassNames : CreateWith(ctor, cls)
    \/ \E ctor \in Ctors, cls \in FactoryClassNames, nm \in Names :
          CreateNamedWith(ctor, cls, nm)

\* ------------------------------------------------------------------------
\* Network Manager: frames and bytes
\* ------------------------------------------------------------------------
Conns == 1..MaxConns
Mgrs == 0..MaxConns
RLs == {"S", "C"} \X Conns
ServerRLs == {"S"} \X Conns

\* The same bytes, least significant first
PutUint32LittleEndian(n) ==
    <<n % 256, (n \div 256) % 256, (n \div 65536) % 256, (n \div 16777216) % 256>>

\* binary.BigEndian.PutUint32(header[:], uint32(n))
PutUint32(n) ==
    <<(n \div 16777216) % 256, (n \div 65536) % 256, (n \div 256) % 256, n % 256>>

\* binary.BigEndian.Uint32(lenBuf[:])
Uint32(b) == b[1] * 16777216 + b[2] * 65536 + b[3] * 256 + b[4]

\* pktKey(ptype, psub)
pktKey(t, s) == t * 256 + s

Frame(t, s, p) == [t |-> t, s |-> s, p |-> p]

\* The three conn.Write calls of SendPacket: header, type and subtype, payload
\* (the last only if the payload is not empty).
WriteOf(f, step) ==
    CASE step = 1 -> PutUint32(2 + Len(f.p))
      [] step = 2 -> <<f.t, f.s>>
      [] OTHER -> f.p

LastWrite(f) == IF Len(f.p) > 0 THEN 3 ELSE 2

Idle == [f |-> Frame(0, 0, <<>>), step |-> 0]

\* Payloads as bytes
Ping == <<112, 105, 110, 103>>
Pong == <<112, 111, 110, 103>>

\* In the peer's record of what it sent: a header whose length is n, and a
\* frame cut after n bytes
Bad(n) == [t |-> -1, s |-> n, p |-> <<>>]
Cut(n) == [t |-> -2, s |-> n, p |-> <<>>]

\* The k-th frame bare peers send in SpecNet carries k, so that no two are equal
NetFrame(k) == Frame(0, 0, <<k>>)

\* The session keys and frames of the client in SpecClient
Keys == {<<>>, <<107>>}
ClientFrames ==
    {Frame(0, 0, Ping), Frame(7, 3, <<97, 98, 99>>), Frame(255, 0, <<>>),
     Frame(0, 255, <<0>>), Frame(255, 255, <<255, 0>>)}

RECURSIVE SumLen(_, _)
SumLen(f, S) ==
    IF S = {} THEN 0
    ELSE LET c == CHOOSE x \in S : TRUE IN Len(f[c]) + SumLen(f, S \ {c})

\* Frames and malformed headers begun so far
Total == SumLen(sent, Conns)

\* ------------------------------------------------------------------------
\* Network Manager: the receive loop
\* ------------------------------------------------------------------------
\* The owning thread of the server, named as the receive loops are
Main == <<"M", 0>>

NoEvent == [t |-> 0, s |-> 0, p |-> <<>>, client |-> 0]
Stopped == [pc |-> "off", bodyLen |-> 0, evt |-> NoEvent, why |-> "none"]

\* readLoop(r, client): the manager it belongs to, its client argument
\* (0: nil), the bytes it reads, and the two ends of r
MgrOf(e) == IF e[1] = "S" THEN 0 ELSE e[2]
\* A server that gives every loop the handle of connection 1
ClientOfFirst(e) == IF e[1] = "S" THEN 1 ELSE 0
ClientOf(e) == IF e[1] = "S" THEN e[2] ELSE 0
In(e) == IF e[1] = "S" THEN up[e[2]] ELSE down[e[2]]
LocalShut(e) == IF e[1] = "S" THEN srvShut[e[2]] ELSE cliShut[e[2]]
RemoteShut(e) == IF e[1] = "S" THEN cliShut[e[2]] ELSE srvShut[e[2]]

\* io.ReadFull(r, buf) for n bytes: "ok", "err" (closed, or the stream ended
\* first), or "wait"
ReadFull(e, n) ==
    IF LocalShut(e) THEN "err"
    ELSE IF Len(In(e)) >= n THEN "ok"
    ELSE IF RemoteShut(e) THEN "err"
    ELSE "wait"

Consume(e, n) ==
    LET rest == SubSeq(In(e), n + 1, Len(In(e)))
    IN  IF e[1] = "S"
        THEN up' = [up EXCEPT ![e[2]] = rest] /\ UNCHANGED down
        ELSE down' = [down EXCEPT ![e[2]] = rest] /\ UNCHANGED up

\* r.Close(), or not
CloseIf(e, yes) ==
    IF ~yes THEN UNCHANGED <<srvShut, cliShut>>
    ELSE IF e[1] = "S"
    THEN srvShut' = [srvShut EXCEPT ![e[2]] = TRUE] /\ UNCHANGED cliShut
    ELSE cliShut' = [cliShut EXCEPT ![e[2]] = TRUE] /\ UNCHANGED srvShut

\* A loop that skips a malformed header and reads on
OnInvalidLengthGoOn == [pc |-> "top", close |-> FALSE]

\* What the loop does on a length below 2: close r and return
OnInvalidLength == [pc |-> "done", close |-> TRUE]

\* NewNetworkManager(eventsBuf): the capacity of the Events channel
DefaultEventsBuf == 1024
NewNetworkManager(eventsBuf) == IF eventsBuf <= 0 THEN DefaultEventsBuf ELSE eventsBuf

\* A channel without a bound
CanSendAlways(m) == TRUE

\* The channel of manager m has room
CanSend(m) == Len(events[m]) < capacity

\* A loop that calls the handler itself instead of pushing
PushEventInvokes(e, evt) ==
    [events |-> events, inHandler |-> inHandler \cup {e}]

\* A channel that gives the newest event first
PushEventFront(e, evt) ==
    [events |-> [events EXCEPT ![MgrOf(e)] = <<evt>> \o @],
     inHandler |-> inHandler]

\* A send that gives the event up when the channel is not empty
PushEventLossy(e, evt) ==
    [events |-> [events EXCEPT ![MgrOf(e)] = IF @ = <<>> THEN <<evt>> ELSE @],
     inHandler |-> inHandler]

\* nm.Events <- evt, for the loop e
PushEvent(e, evt) ==
    [events |-> [events EXCEPT ![MgrOf(e)] = Append(@, evt)],
     inHandler |-> inHandler]

otherNet == <<listening, handlers, link, capacity, cons, app, snd, sent, upLog, handled>>

\* The threads that send: the owning thread of the server (Main), the
\* application thread of the peer on connection c, and the sender tasks.
Free == <<"-", 0>>
AppThread(c) == <<"A", c>>
Task(t) == <<"T", t>>

\* The send mutexes: nm.sendMu of the client manager of connection c, and
\* sendMu of the server's ClientConn for connection c.
NmMu(c) == <<"nm", c>>
CcMu(c) == <<"cc", c>>
SendMus == {"nm", "cc"} \X Conns

\* A SendPacket that does not take the mutex
CanLockAlways(mu, me) == TRUE

\* sendMu.Lock() returns for the thread me (which may hold it from its former write)
CanLock(mu, me) == sendMu[mu] \in {Free, me}

\* top of the loop: select on ctx.Done with default
RLTop(e) ==
    /\ rl[e].pc = "top"
    /\ rl' = [rl EXCEPT ![e] = IF cancelled[MgrOf(e)]
                                THEN [@ EXCEPT !.pc = "done", !.why = "cancel"]
                                ELSE [@ EXCEPT !.pc = "header"]]
    /\ UNCHANGED <<srvShut, cliShut, up, down, clients, events, cancelled,
                   inHandler, pushed, otherNet, treeVars, closeVars, sendVars>>

\* io.ReadFull(r, lenBuf[:]) and the check of bodyLen
RLHeader(e) ==
    /\ rl[e].pc = "header"
    /\ ReadFull(e, 4) # "wait"
    /\ IF ReadFull(e, 4) = "err"
       THEN /\ clients' = IF ClientOf(e) # 0 THEN clients \ {e[2]} ELSE clients
            /\ CloseIf(e, TRUE)
            /\ rl' = [rl EXCEPT ![e].pc = "done", ![e].why = "header"]
            /\ UNCHANGED <<up, down>>
       ELSE LET bodyLen == Uint32(SubSeq(In(e), 1, 4))
            IN  /\ Consume(e, 4)
                /\ UNCHANGED clients
                /\ IF bodyLen < 2
                   THEN /\ CloseIf(e, OnInvalidLength.close)
                        /\ rl' = [rl EXCEPT ![e].pc = OnInvalidLength.pc,
                                            ![e].why = "length"]
                   ELSE /\ CloseIf(e, FALSE)
                        /\ rl' = [rl EXCEPT ![e].pc = "body", ![e].bodyLen = bodyLen]
    /\ UNCHANGED <<events, cancelled, inHandler, pushed, otherNet, treeVars, closeVars, sendVars>>

\* io.ReadFull(r, body) and the making of evt
RLBody(e) ==
    /\ rl[e].pc = "body"
    /\ ReadFull(e, rl[e].bodyLen) # "wait"
    /\ IF ReadFull(e, rl[e].bodyLen) = "err"
       THEN /\ CloseIf(e, TRUE)
            /\ rl' = [rl EXCEPT ![e].pc = "done", ![e].why = "body", ![e].bodyLen = 0]
            /\ UNCHANGED <<up, down>>
       ELSE LET body == SubSeq(In(e), 1, rl[e].bodyLen)
                evt == [t |-> body[1], s |-> body[2],
                        p |-> SubSeq(body, 3, Len(body)), client |-> ClientOf(e)]
            IN  /\ Consume(e, rl[e].bodyLen)
                /\ CloseIf(e, FALSE)
                /\ rl' = [rl EXCEPT ![e].pc = "push", ![e].evt = evt]
    /\ UNCHANGED <<clients, events, cancelled, inHandler, pushed, otherNet, treeVars, closeVars, sendVars>>

\* select { case nm.Events <- evt: ; case <-nm.ctx.Done(): return }
RLPush(e) ==
    /\ rl[e].pc = "push"
    /\ \E way \in {w \in {"send", "panic", "done"} :
                     \/ w = "send" /\ CanSend(MgrOf(e)) /\ ~closed[MgrOf(e)]
                     \/ w = "panic" /\ closed[MgrOf(e)]
                     \/ w = "done" /\ cancelled[MgrOf(e)]} :
          CASE way = "send" ->
               /\ events' = PushEvent(e, rl[e].evt).events
               /\ inHandler' = PushEvent(e, rl[e].evt).inHandler
               /\ pushed' = IF MgrOf(e) = 0 THEN Append(pushed, rl[e].evt) ELSE pushed
               /\ rl' = [rl EXCEPT ![e].pc = "top", ![e].bodyLen = 0, ![e].evt = NoEvent]
            [] way = "panic" ->
               \* the send case of the select on a closed channel: the process dies
               /\ rl' = [rl EXCEPT ![e].pc = "panic", ![e].why = "closed"]
               /\ UNCHANGED <<events, inHandler, pushed>>
            [] OTHER ->
               /\ rl' = [rl EXCEPT ![e].pc = "done", ![e].why = "cancel"]
               /\ UNCHANGED <<events, inHandler, pushed>>
    /\ UNCHANGED <<srvShut, cliShut, up, down, clients, cancelled, otherNet, treeVars, closeVars, sendVars>>

\* ------------------------------------------------------------------------
\* Network Manager: the server and its owning thread
\* ------------------------------------------------------------------------
\* nm.RegisterHandler(t, s, h), called by main before it serves
RegisterHandler(t, s, h) ==
    /\ ~listening
    /\ pktKey(t, s) \notin DOMAIN handlers
    /\ handlers' = [k \in DOMAIN handlers \cup {pktKey(t, s)} |->
                       IF k = pktKey(t, s) THEN h ELSE handlers[k]]
    /\ UNCHANGED <<listening, capacity, link, srvShut, cliShut, up, down, clients, rl, events,
                   cancelled, cons, inHandler, app, snd, sent, upLog, pushed, handled,
                   treeVars, closeVars, sendVars>>

\* nm.UnregisterHandler(t, s), called by main between two dispatches:
\* delete(nm.handlers, key), which does nothing for a key that is not there
UnregisterHandler(t, s) ==
    /\ cons.pc = "drain"
    /\ handlers' = [k \in DOMAIN handlers \ {pktKey(t, s)} |-> handlers[k]]
    /\ UNCHANGED <<listening, capacity, link, srvShut, cliShut, up, down, clients, rl, events,
                   cancelled, cons, inHandler, app, snd, sent, upLog, pushed, handled,
                   treeVars, closeVars, sendVars>>

\* nm.Serve: bind the listener and start the accept loop
Serve ==
    /\ ~listening
    /\ listening' = TRUE
    /\ UNCHANGED <<capacity, handlers, link, srvShut, cliShut, up, down, clients, rl,
                   events, cancelled, cons, inHandler, app, snd, sent, upLog, pushed,
                   handled, treeVars, closeVars, sendVars>>

\* One turn of the accept loop: Accept, wrap, clients.Store, go readLoop
Accept(c) ==
    /\ listening
    /\ link[c] = "dialed"
    /\ link' = [link EXCEPT ![c] = "open"]
    /\ clients' = clients \cup {c}
    /\ rl' = [rl EXCEPT ![<<"S", c>>].pc = "top"]
    /\ UNCHANGED <<listening, capacity, handlers, srvShut, cliShut, up, down, events, cancelled,
                   cons, inHandler, app, snd, sent, upLog, pushed, handled, treeVars, closeVars, sendVars>>

\* An InvokeHandler that falls back on the ping handler
LookupOrPing(evt) ==
    IF pktKey(evt.t, evt.s) \in DOMAIN handlers
    THEN handlers[pktKey(evt.t, evt.s)] ELSE "ping"

\* nm.handlers[pktKey(evt.PType, evt.PSub)], "none" for nil
Lookup(evt) ==
    IF pktKey(evt.t, evt.s) \in DOMAIN handlers
    THEN handlers[pktKey(evt.t, evt.s)] ELSE "none"

\* The drain loop of main takes an event and calls nm.InvokeHandler(ev, dm)
Drain ==
    /\ cons.pc = "drain"
    /\ events[0] # <<>>
    /\ LET ev == Head(events[0])
       IN  /\ events' = [events EXCEPT ![0] = Tail(@)]
           /\ handled' = Append(handled, [ev |-> ev, h |-> Lookup(ev)])
           /\ IF Lookup(ev) = "none"
              THEN UNCHANGED <<cons, inHandler>>
              ELSE /\ cons' = [pc |-> "handler", ev |-> ev, step |-> 1]
                   /\ inHandler' = inHandler \cup {Main}
    /\ UNCHANGED <<listening, capacity, handlers, link, srvShut, cliShut, up, down, clients, rl,
                   cancelled, app, snd, sent, upLog, pushed, treeVars, closeVars, sendVars>>

\* A handler that sends the payload back
PingReplyEcho == Frame(1, 0, Ping)

\* What the ping handler of main sends back
PingReply == Frame(1, 0, Pong)
\* The ping handler of main: c.SendPacket(0x01, 0x00, "pong"), one conn.Write
\* at a time; it returns when SendPacket returns (nil c, a failed write, or
\* the last write).
Handler ==
    /\ cons.pc = "handler"
    /\ LET c == cons.ev.client
           f == PingReply
           fails == c = 0 \/ srvShut[c]
           ends == fails \/ cons.step = LastWrite(f)
       IN  /\ c = 0 \/ CanLock(CcMu(c), Main)
           /\ down' = IF fails THEN down
                      ELSE [down EXCEPT ![c] = @ \o WriteOf(f, cons.step)]
           /\ cons' = IF ends THEN [pc |-> "drain", ev |-> NoEvent, step |-> 0]
                      ELSE [cons EXCEPT !.step = @ + 1]
           /\ inHandler' = IF ends THEN inHandler \ {Main} ELSE inHandler
           /\ sendMu' = IF c = 0 THEN sendMu
                        ELSE [sendMu EXCEPT ![CcMu(c)] = IF ends THEN Free ELSE Main]
    /\ UNCHANGED <<listening, capacity, handlers, link, srvShut, cliShut, up, clients, rl, events,
                   cancelled, app, snd, sent, upLog, pushed, handled, treeVars, closeVars,
                   tasks, replies>>

\* ------------------------------------------------------------------------
\* Network Manager: the peers
\* ------------------------------------------------------------------------
\* A bare socket dials the server; connections are taken in order.
PeerDial(c) ==
    /\ listening
    /\ link[c] = "free"
    /\ \A d \in Conns : d < c => link[d] # "free"
    /\ link' = [link EXCEPT ![c] = "dialed"]
    /\ app' = [app EXCEPT ![c] = "raw"]
    /\ UNCHANGED <<listening, capacity, handlers, srvShut, cliShut, up, down, clients, rl, events,
                   cancelled, cons, inHandler, snd, sent, upLog, pushed, handled, treeVars, closeVars, sendVars>>

\* nm.Connect(key, ...): Dial, go nm.readLoop(conn, nil), and then the
\* handshake nm.SendPacket(0x00, 0x01, key), whose writes follow
Connect(c, key) ==
    /\ listening
    /\ link[c] = "free"
    /\ Total < MaxFrames
    /\ link' = [link EXCEPT ![c] = "dialed"]
    /\ rl' = [rl EXCEPT ![<<"C", c>>].pc = "top"]
    /\ app' = [app EXCEPT ![c] = "handshake"]
    /\ snd' = [snd EXCEPT ![c] = [f |-> Frame(0, 1, key), step |-> 1]]
    /\ sent' = [sent EXCEPT ![c] = Append(@, Frame(0, 1, key))]
    /\ UNCHANGED <<listening, capacity, handlers, srvShut, cliShut, up, down, clients, events,
                   cancelled, cons, inHandler, upLog, pushed, handled, treeVars, closeVars, sendVars>>

\* SendPacket(t, s, p) on the peer's side, up to its first conn.Write
SendPacket(c, f) ==
    /\ app[c] = "ready"
    /\ snd[c].step = 0
    /\ ~cliShut[c]
    /\ Total < MaxFrames
    /\ CanLock(NmMu(c), AppThread(c))
    /\ sendMu' = [sendMu EXCEPT ![NmMu(c)] = AppThread(c)]
    /\ up' = [up EXCEPT ![c] = @ \o WriteOf(f, 1)]
    /\ upLog' = [upLog EXCEPT ![c] = @ \o WriteOf(f, 1)]
    /\ snd' = [snd EXCEPT ![c] = [f |-> f, step |-> 2]]
    /\ sent' = [sent EXCEPT ![c] = Append(@, f)]
    /\ UNCHANGED <<listening, capacity, handlers, link, srvShut, cliShut, down, clients, rl, events,
                   cancelled, cons, inHandler, app, pushed, handled, treeVars, closeVars,
                   tasks, replies>>

\* The next conn.Write of the SendPacket in progress. A write on a closed
\* socket fails and SendPacket returns; Connect then calls nm.Close(), whose
\* first statement cancels the context (the rest of Close follows in
\* CloseSockets, CloseEvents and CloseReturn).
Write(c) ==
    /\ snd[c].step > 0
    /\ CanLock(NmMu(c), AppThread(c))
    /\ LET f == snd[c].f
           fails == cliShut[c]
           ends == fails \/ snd[c].step = LastWrite(f)
       IN  /\ sendMu' = [sendMu EXCEPT ![NmMu(c)] = IF ends THEN Free ELSE AppThread(c)]
           /\ closing' = IF app[c] = "handshake" /\ fails
                         THEN [closing EXCEPT ![c] = "cancelled"] ELSE closing
           /\ up' = IF fails THEN up ELSE [up EXCEPT ![c] = @ \o WriteOf(f, snd[c].step)]
           /\ upLog' = IF fails THEN upLog
                       ELSE [upLog EXCEPT ![c] = @ \o WriteOf(f, snd[c].step)]
           /\ snd' = [snd EXCEPT ![c] = IF ends THEN Idle ELSE [@ EXCEPT !.step = @ + 1]]
           /\ app' = [app EXCEPT ![c] = IF @ = "handshake" /\ fails THEN "closing"
                                        ELSE IF @ = "handshake" /\ ends THEN "ready"
                                        ELSE @]
           /\ cancelled' = IF app[c] = "handshake" /\ fails
                           THEN [cancelled EXCEPT ![c] = TRUE] ELSE cancelled
    /\ UNCHANGED <<listening, capacity, handlers, link, srvShut, cliShut, down, clients, rl, events,
                   cons, inHandler, sent, pushed, handled, treeVars, closed, again, tasks, replies>>

\* The bytes of a whole frame
FrameBytes(f) == WriteOf(f, 1) \o WriteOf(f, 2) \o IF Len(f.p) > 0 THEN WriteOf(f, 3) ELSE <<>>

\* A bare socket writes the first n bytes of a frame: all of them, or fewer
\* and it closes its end
PeerFrame(c, f, n) ==
    /\ app[c] = "raw"
    /\ ~cliShut[c]
    /\ Total < MaxFrames
    /\ n \in 1..Len(FrameBytes(f))
    /\ up' = [up EXCEPT ![c] = @ \o SubSeq(FrameBytes(f), 1, n)]
    /\ upLog' = [upLog EXCEPT ![c] = @ \o SubSeq(FrameBytes(f), 1, n)]
    /\ sent' = [sent EXCEPT ![c] = Append(@, IF n = Len(FrameBytes(f)) THEN f ELSE Cut(n))]
    /\ cliShut' = [cliShut EXCEPT ![c] = n < Len(FrameBytes(f))]
    /\ UNCHANGED <<listening, capacity, handlers, link, srvShut, down, clients, rl, events,
                   cancelled, cons, inHandler, app, snd, pushed, handled, treeVars, closeVars, sendVars>>

\* A bare socket writes a header whose length is n and nothing else
PeerBadHeader(c, n) ==
    /\ app[c] = "raw"
    /\ snd[c].step = 0
    /\ ~cliShut[c]
    /\ Total < MaxFrames
    /\ up' = [up EXCEPT ![c] = @ \o PutUint32(n)]
    /\ upLog' = [upLog EXCEPT ![c] = @ \o PutUint32(n)]
    /\ sent' = [sent EXCEPT ![c] = Append(@, Bad(n))]
    /\ UNCHANGED <<listening, capacity, handlers, link, srvShut, cliShut, down, clients, rl, events,
                   cancelled, cons, inHandler, app, snd, pushed, handled, treeVars, closeVars, sendVars>>

\* A bare socket closes its end between two frames
PeerClose(c) ==
    /\ app[c] = "raw"
    /\ ~cliShut[c]
    /\ cliShut' = [cliShut EXCEPT ![c] = TRUE]
    /\ UNCHANGED <<listening, capacity, handlers, link, srvShut, up, down, clients, rl, events,
                   cancelled, cons, inHandler, app, snd, sent, upLog, pushed, handled,
                   treeVars, closeVars, sendVars>>

\* ------------------------------------------------------------------------
\* Network Manager: Close
\* ------------------------------------------------------------------------
\* The receive loops of manager m
LoopsOf(m) == {e \in RLs : MgrOf(e) = m}

closeFrame == UNCHANGED <<capacity, handlers, link, up, down, clients, rl, events, cons,
                          inHandler, app, snd, sent, upLog, pushed, handled, sendVars, treeVars>>

\* main calls nm.Close() on the server: nm.cancel()
CloseCancel(m) ==
    /\ closing[m] = "none"
    /\ closing' = [closing EXCEPT ![m] = "cancelled"]
    /\ cancelled' = [cancelled EXCEPT ![m] = TRUE]
    /\ UNCHANGED <<listening, srvShut, cliShut, closed, again>>
    /\ closeFrame

\* Close, after the cancel: nm.conn.Close() of a client manager that has
\* dialed, nm.listener.Close() and the Range over nm.clients of a server that
\* serves, and the go statement of the goroutine that will close nm.Events.
CloseSockets(m) ==
    /\ closing[m] = "cancelled"
    /\ closing' = [closing EXCEPT ![m] = "wait"]
    /\ cliShut' = IF m # 0 /\ link[m] # "free" THEN [cliShut EXCEPT ![m] = TRUE] ELSE cliShut
    /\ listening' = IF m = 0 THEN FALSE ELSE listening
    /\ srvShut' = IF m = 0 THEN [c \in Conns |-> srvShut[c] \/ c \in clients] ELSE srvShut
    /\ UNCHANGED <<cancelled, closed, again>>
    /\ closeFrame

\* The goroutine Close started: time.Sleep(5 * time.Millisecond), then
\* close(nm.Events). The sleep orders it after nothing: it may run before or
\* after any step of a receive loop, and before or after the goroutine of a
\* second Close; close() of a channel that is closed already panics.
CloseEvents(m) ==
    /\ closing[m] \in {"wait", "returned"}
    /\ ~closed[m] \/ again[m].go = "closed"
    /\ closed' = [closed EXCEPT ![m] = TRUE]
    /\ again' = IF closed[m] THEN [again EXCEPT ![m].go = "panic"] ELSE again
    /\ UNCHANGED <<listening, srvShut, cliShut, cancelled, closing>>
    /\ closeFrame

\* nm.wg.Wait() returns: every receive loop of m and its accept loop have returned
CloseReturn(m) ==
    /\ closing[m] = "wait"
    /\ \A e \in LoopsOf(m) : rl[e].pc \in {"off", "done"}
    /\ closing' = [closing EXCEPT ![m] = "returned"]
    /\ UNCHANGED <<listening, srvShut, cliShut, cancelled, closed, again>>
    /\ closeFrame

\* No second Close has been called
NotAgain == [pc |-> "none", go |-> "none"]

\* nm.Close() called on a manager whose Close has returned (main's, or the
\* one Connect made when the handshake could not be written): nm.cancel(),
\* which does nothing on a cancelled context
CloseAgainCancel(m) ==
    /\ closing[m] = "returned"
    /\ again[m].pc = "none"
    /\ again' = [again EXCEPT ![m].pc = "cancelled"]
    /\ cancelled' = [cancelled EXCEPT ![m] = TRUE]
    /\ UNCHANGED <<listening, srvShut, cliShut, closing, closed>>
    /\ closeFrame

\* The second Close, after the cancel: the sockets are closed once more (the
\* errors are dropped) and one more goroutine is started to close nm.Events
CloseAgainSockets(m) ==
    /\ again[m].pc = "cancelled"
    /\ again' = [again EXCEPT ![m] = [pc |-> "wait", go |-> "sleeping"]]
    /\ cliShut' = IF m # 0 /\ link[m] # "free" THEN [cliShut EXCEPT ![m] = TRUE] ELSE cliShut
    /\ listening' = IF m = 0 THEN FALSE ELSE listening
    /\ srvShut' = IF m = 0 THEN [c \in Conns |-> srvShut[c] \/ c \in clients] ELSE srvShut
    /\ UNCHANGED <<cancelled, closing, closed>>
    /\ closeFrame

\* The goroutine of the second Close: the sleep, then close(nm.Events),
\* which panics when the goroutine of the first Close has closed the channel
CloseAgainEvents(m) ==
    /\ again[m].go = "sleeping"
    /\ again' = [again EXCEPT ![m].go = IF closed[m] THEN "panic" ELSE "closed"]
    /\ closed' = [closed EXCEPT ![m] = TRUE]
    /\ UNCHANGED <<listening, srvShut, cliShut, cancelled, closing>>
    /\ closeFrame

\* nm.wg.Wait() of the second Close returns, unless the process has died
CloseAgainReturn(m) ==
    /\ again[m].pc = "wait"
    /\ again[m].go # "panic"
    /\ \A e \in LoopsOf(m) : rl[e].pc \in {"off", "done"}
    /\ again' = [again EXCEPT ![m].pc = "returned"]
    /\ UNCHANGED <<listening, srvShut, cliShut, cancelled, closing, closed>>
    /\ closeFrame

\* ------------------------------------------------------------------------
\* Network Manager: concurrent senders
\* ------------------------------------------------------------------------
Tasks == 1..MaxSenders
NoTask == [mu |-> NmMu(1), f |-> Frame(0, 0, <<>>), st |-> "idle", step |-> 0]

\* The frames task t sends: one without payload (two writes), one with (three)
TaskFrames(t) == {Frame(t, 0, <<>>), Frame(t, 1, <<t, t>>)}

\* conn.Write(bytes) on the socket the mutex mu guards: nm.conn of the client
\* manager, or the ClientConn's conn on the server
SocketShut(mu) == IF mu[1] = "nm" THEN cliShut[mu[2]] ELSE srvShut[mu[2]]
SocketWrite(mu, bytes) ==
    IF mu[1] = "nm"
    THEN /\ up' = [up EXCEPT ![mu[2]] = @ \o bytes]
         /\ upLog' = [upLog EXCEPT ![mu[2]] = @ \o bytes]
         /\ UNCHANGED down
    ELSE /\ down' = [down EXCEPT ![mu[2]] = @ \o bytes]
         /\ UNCHANGED <<up, upLog>>

taskFrame == UNCHANGED <<listening, capacity, handlers, link, srvShut, cliShut, clients, rl,
                         events, cancelled, cons, inHandler, app, snd, pushed, handled,
                         closeVars, treeVars>>

\* Task t calls SendPacket(f) on the manager (after Connect returned) or on
\* the ClientConn (after the accept loop made it): the nil checks and the
\* header are done, sendMu.Lock() is next.
TaskCall(t, mu, f) ==
    /\ tasks[t].st = "idle"
    /\ IF mu[1] = "nm" THEN app[mu[2]] = "ready" ELSE mu[2] \in clients
    /\ tasks' = [tasks EXCEPT ![t] = [mu |-> mu, f |-> f, st |-> "called", step |-> 1]]
    /\ UNCHANGED <<up, down, upLog, sent, sendMu, replies>>
    /\ taskFrame

\* sendMu.Lock() and the conn.Write calls of task t, one at a time; the
\* deferred Unlock runs when SendPacket returns, after a failed write or
\* after the last one.
TaskWrite(t) ==
    /\ tasks[t].st \in {"called", "sending"}
    /\ CanLock(tasks[t].mu, Task(t))
    /\ LET mu == tasks[t].mu
           f == tasks[t].f
           fails == SocketShut(mu)
           ends == fails \/ tasks[t].step = LastWrite(f)
       IN  /\ SocketWrite(mu, IF fails THEN <<>> ELSE WriteOf(f, tasks[t].step))
           /\ sendMu' = [sendMu EXCEPT ![mu] = IF ends THEN Free ELSE Task(t)]
           /\ tasks' = [tasks EXCEPT ![t].st = IF ends THEN "done" ELSE "sending",
                                     ![t].step = IF ends THEN 0 ELSE @ + 1]
           /\ sent' = IF tasks[t].st = "called" /\ mu[1] = "nm"
                      THEN [sent EXCEPT ![mu[2]] = Append(@, f)] ELSE sent
           /\ replies' = IF tasks[t].st = "called" /\ mu[1] = "cc"
                         THEN [replies EXCEPT ![mu[2]] = Append(@, f)] ELSE replies
    /\ taskFrame

\* ------------------------------------------------------------------------
\* Specifications
\* ------------------------------------------------------------------------
NetInit(bufs) ==
    /\ capacity \in {NewNetworkManager(b) : b \in bufs}
    /\ listening = FALSE
    /\ handlers = <<>>
    /\ link = [c \in Conns |-> "free"]
    /\ srvShut = [c \in Conns |-> FALSE]
    /\ cliShut = [c \in Conns |-> FALSE]
    /\ up = [c \in Conns |-> <<>>]
    /\ down = [c \in Conns |-> <<>>]
    /\ clients = {}
    /\ rl = [e \in RLs |-> Stopped]
    /\ events = [m \in Mgrs |-> <<>>]
    /\ cancelled = [m \in Mgrs |-> FALSE]
    /\ cons = [pc |-> "drain", ev |-> NoEvent, step |-> 0]
    /\ inHandler = {}
    /\ app = [c \in Conns |-> "idle"]
    /\ snd = [c \in Conns |-> Idle]
    /\ sent = [c \in Conns |-> <<>>]
    /\ upLog = [c \in Conns |-> <<>>]
    /\ pushed = <<>>
    /\ handled = <<>>
    /\ closing = [m \in Mgrs |-> "none"]
    /\ closed = [m \in Mgrs |-> FALSE]
    /\ again = [m \in Mgrs |-> NotAgain]
    /\ sendMu = [mu \in SendMus |-> Free]
    /\ tasks = [t \in Tasks |-> NoTask]
    /\ replies = [c \in Conns |-> <<>>]

\* A server that registers the ping handler and then serves, as main does,
\* and bare sockets that send whole frames
NetNext ==
    \/ RegisterHandler(0, 0, "ping")
    \/ handlers # <<>> /\ Serve
    \/ \E c \in Conns : PeerDial(c)
    \/ \E c \in Conns : Accept(c)
    \/ \E c \in Conns : PeerFrame(c, NetFrame(Total + 1), Len(FrameBytes(NetFrame(Total + 1))))
    \/ \E e \in ServerRLs : RLTop(e)
    \/ \E e \in ServerRLs : RLHeader(e)
    \/ \E e \in ServerRLs : RLBody(e)
    \/ \E e \in ServerRLs : RLPush(e)
    \/ Drain
    \/ Handler

\* A server, with or without the ping handler, and one bare socket that
\* sends whole frames, cut frames and malformed headers, and closes
PeerNext ==
    \/ RegisterHandler(0, 0, "ping")
    \/ Serve
    \/ PeerDial(1)
    \/ Accept(1)
    \/ \E n \in 1..7 : PeerFrame(1, NetFrame(Total + 1), n)
    \/ \E n \in {0, 1} : PeerBadHeader(1, n)
    \/ PeerClose(1)
    \/ RLTop(<<"S", 1>>)
    \/ RLHeader(<<"S", 1>>)
    \/ RLBody(<<"S", 1>>)
    \/ RLPush(<<"S", 1>>)
    \/ Drain
    \/ Handler

\* A server, with or without the ping handler, and a client manager on
\* connection 1
ClientNext ==
    \/ RegisterHandler(0, 0, "ping")
    \/ Serve
    \/ \E key \in Keys : Connect(1, key)
    \/ Accept(1)
    \/ \E f \in ClientFrames : SendPacket(1, f)
    \/ Write(1)
    \/ \E e \in {<<"S", 1>>, <<"C", 1>>} : RLTop(e)
    \/ \E e \in {<<"S", 1>>, <<"C", 1>>} : RLHeader(e)
    \/ \E e \in {<<"S", 1>>, <<"C", 1>>} : RLBody(e)
    \/ \E e \in {<<"S", 1>>, <<"C", 1>>} : RLPush(e)
    \/ Drain
    \/ Handler

\* A server and the client manager of connection 1; main closes the server
\* at any time it is not inside a handler, and the client's Connect closes
\* its manager when the handshake cannot be written.
CloseNext ==
    \/ closing[0] = "none" /\ Serve
    \/ \E key \in Keys : closing[0] = "none" /\ Connect(1, key)
    \/ Accept(1)
    \/ Write(1)
    \/ \E e \in {<<"S", 1>>, <<"C", 1>>} : RLTop(e)
    \/ \E e \in {<<"S", 1>>, <<"C", 1>>} : RLHeader(e)
    \/ \E e \in {<<"S", 1>>, <<"C", 1>>} : RLBody(e)
    \/ \E e \in {<<"S", 1>>, <<"C", 1>>} : RLPush(e)
    \/ Drain
    \/ listening /\ cons.pc = "drain" /\ CloseCancel(0)
    \/ \E m \in {0, 1} : CloseSockets(m)
    \/ \E m \in {0, 1} : CloseEvents(m)
    \/ \E m \in {0, 1} : CloseReturn(m)

\* The same, and the owner of each manager calls Close once more when the
\* first Close has returned: main on the server, and on the client the
\* caller of the Connect that failed and closed the manager itself
AgainNext ==
    \/ CloseNext
    \/ \E m \in {0, 1} : CloseAgainCancel(m)
    \/ \E m \in {0, 1} : CloseAgainSockets(m)
    \/ \E m \in {0, 1} : CloseAgainEvents(m)
    \/ \E m \in {0, 1} : CloseAgainReturn(m)

\* A server that registers the ping handler and then serves, as main does,
\* and two bare sockets that send whole frames, the second of them also
\* headers with a length of 1; no Close is called
DeliverNext ==
    \/ RegisterHandler(0, 0, "ping")
    \/ handlers # <<>> /\ Serve
    \/ \E c \in {1, 2} : PeerDial(c)
    \/ \E c \in {1, 2} : Accept(c)
    \/ \E c \in {1, 2} :
          PeerFrame(c, NetFrame(Total + 1), Len(FrameBytes(NetFrame(Total + 1))))
    \/ PeerBadHeader(2, 1)
    \/ \E e \in {<<"S", 1>>, <<"S", 2>>} : RLTop(e)
    \/ \E e \in {<<"S", 1>>, <<"S", 2>>} : RLHeader(e)
    \/ \E e \in {<<"S", 1>>, <<"S", 2>>} : RLBody(e)
    \/ \E e \in {<<"S", 1>>, <<"S", 2>>} : RLPush(e)
    \/ Drain
    \/ Handler

\* A server with the ping handler, the client manager of connection 1, which
\* sends a ping after its handshake, and a bare socket on connection 2
RouteNext ==
    \/ RegisterHandler(0, 0, "ping")
    \/ handlers # <<>> /\ Serve
    \/ Connect(1, <<107>>)
    \/ SendPacket(1, Frame(0, 0, Ping))
    \/ Write(1)
    \/ PeerDial(2)
    \/ \E c \in {1, 2} : Accept(c)
    \/ PeerFrame(2, NetFrame(Total + 1), Len(FrameBytes(NetFrame(Total + 1))))
    \/ \E e \in {<<"S", 1>>, <<"S", 2>>, <<"C", 1>>} : RLTop(e)
    \/ \E e \in {<<"S", 1>>, <<"S", 2>>, <<"C", 1>>} : RLHeader(e)
    \/ \E e \in {<<"S", 1>>, <<"S", 2>>, <<"C", 1>>} : RLBody(e)
    \/ \E e \in {<<"S", 1>>, <<"S", 2>>, <<"C", 1>>} : RLPush(e)
    \/ Drain
    \/ Handler

\* The frames the bare socket of SpecDispatch sends: a ping (type 0, subtype
\* 0) and a frame of a type main registers no handler for
DispatchFrames(k) == {NetFrame(k), Frame(2, 0, <<k>>)}

\* A server that registers the ping handler before it serves and may
\* unregister it at any time, and one bare socket that sends whole frames
\* with and without a handler
DispatchNext ==
    \/ RegisterHandler(0, 0, "ping")
    \/ \E k \in {pktKey(0, 0), pktKey(2, 0)} :
          k \in DOMAIN handlers /\ UnregisterHandler(k \div 256, k % 256)
    \/ Serve
    \/ PeerDial(1)
    \/ Accept(1)
    \/ \E f \in DispatchFrames(Total + 1) : PeerFrame(1, f, Len(FrameBytes(f)))
    \/ RLTop(<<"S", 1>>)
    \/ RLHeader(<<"S", 1>>)
    \/ RLBody(<<"S", 1>>)
    \/ RLPush(<<"S", 1>>)
    \/ Drain
    \/ Handler

\* A server, the client manager of connection 1, and tasks that call
\* SendPacket on the manager and on the connection's ClientConn
SendNext ==
    \/ Serve
    \/ \E key \in Keys : Connect(1, key)
    \/ Accept(1)
    \/ Write(1)
    \/ \E t \in Tasks, mu \in {NmMu(1), CcMu(1)} : \E f \in TaskFrames(t) : TaskCall(t, mu, f)
    \/ \E t \in Tasks : TaskWrite(t)

vars == <<treeVars, netVars>>

\* The tree alone, with the managers as main makes them
Init == TreeInit /\ NetInit({DefaultEventsBuf})
SpecTree == Init /\ [][TreeNext]_vars
SpecClone == Init /\ [][CloneNext]_vars
SpecPath == Init /\ [][PathNext]_vars
SpecRound == Init /\ [][RoundNext]_vars
SpecReader == Init /\ [][ReaderNext]_vars
SpecId == Init /\ [][IdNext]_vars
SpecWalk == Init /\ [][WalkNext]_vars
SpecDescend == Init /\ [][DescendNext]_vars
SpecMovers == Init /\ [][MoversNext]_vars
\* The factory called with every constructor a caller can register.
SpecFactory == Init /\ [][FactoryNext]_vars

\* The managers with the smallest and the largest capacity, over an empty tree
NetworkInit == TreeInit /\ NetInit({1, EventsBuf})
SpecNet == NetworkInit /\ [][NetNext]_vars
SpecPeer == NetworkInit /\ [][PeerNext]_vars
SpecClient == NetworkInit /\ [][ClientNext]_vars
SpecClose == NetworkInit /\ [][CloseNext]_vars
SpecAgain == NetworkInit /\ [][AgainNext]_vars
SpecSend == NetworkInit /\ [][SendNext]_vars
SpecRoute == NetworkInit /\ [][RouteNext]_vars
SpecDispatch == NetworkInit /\ [][DispatchNext]_vars

\* SpecClose with every goroutine that can take a step taking one in the end:
\* the receive loops, the accept loop, the thread inside Close and the
\* goroutine Close starts
SpecCloseLive ==
    /\ NetworkInit
    /\ [][CloseNext]_vars
    /\ WF_vars(Accept(1))
    /\ WF_vars(Write(1))
    /\ \A m \in {0, 1} :
          WF_vars(CloseSockets(m)) /\ WF_vars(CloseEvents(m)) /\ WF_vars(CloseReturn(m))
    /\ \A e \in {<<"S", 1>>, <<"C", 1>>} :
          WF_vars(RLTop(e)) /\ WF_vars(RLHeader(e)) /\ WF_vars(RLBody(e)) /\ WF_vars(RLPush(e))

\* No shutdown, the accept loop and every receive loop that can take a step
\* take one in the end, and main keeps draining the queue and its handlers
\* return
SpecDeliver ==
    /\ NetworkInit
    /\ [][DeliverNext]_vars
    /\ WF_vars(Drain)
    /\ WF_vars(Handler)
    /\ \A c \in {1, 2} : WF_vars(Accept(c))
    /\ \A e \in {<<"S", 1>>, <<"S", 2>>} :
          WF_vars(RLTop(e)) /\ WF_vars(RLHeader(e)) /\ WF_vars(RLBody(e)) /\ WF_vars(RLPush(e))

\* The same, with every goroutine that can take a step taking one in the end
SpecPing ==
    /\ NetworkInit
    /\ [][ClientNext]_vars
    /\ WF_vars(Accept(1))
    /\ WF_vars(Write(1))
    /\ WF_vars(Drain)
    /\ WF_vars(Handler)
    /\ \A e \in {<<"S", 1>>, <<"C", 1>>} :
          WF_vars(RLTop(e)) /\ WF_vars(RLHeader(e)) /\ WF_vars(RLBody(e)) /\ WF_vars(RLPush(e))

\* ------------------------------------------------------------------------
\* Instance Tree: properties
\* ------------------------------------------------------------------------
\* The nodes whose child list holds n.
ParentsOf(n) == {p \in Allocated : n \in Range(children[p])}

\* C2: after a.SetParent(b) returns (a and b distinct nodes, b any reference
\* the factory or a child list gives), a is in b.GetChildren() exactly once and
\* a.GetParent() is b; after a.SetParent(nil), a is in no child list and
\* a.GetParent() is nil.
C2_SetParentLinksBothWays ==
    (last.op = "SetParent" /\ proc = "running") =>
        IF last.ref # Nil
        THEN last.ref.node # last.a =>
                /\ Count(GetChildren(Heap, last.ref.node), last.a) = 1
                /\ parent[last.a] = last.ref
        ELSE /\ parent[last.a] = Nil
             /\ ParentsOf(last.a) = {}

\* C3: in every reachable state each node is in at most one node's child list
\* and at most once in it.
C3_AtMostOneParentList ==
    \A n \in Allocated :
        /\ Cardinality(ParentsOf(n)) <= 1
        /\ \A p \in Allocated : Count(children[p], n) <= 1

\* C3 witness: SetParent put a node that has a child of its own into the list
\* of a parent that came out of Clone.
C3_Witness ==
    /\ last.op = "SetParent" /\ proc = "running"
    /\ last.ref # Nil /\ IsBaseInstance(last.ref)
    /\ ParentsOf(last.a) = {last.ref.node}
    /\ children[last.a] # <<>>
    /\ kind[last.a] = "Werkzeug"
    /\ kind[last.ref.node] = "Base" /\ className[last.ref.node] = "Workspace"

\* C9: after Destroy() returned on a node that had a parent, the node and its
\* former descendants have no parent and no children, and GetDescendants() of
\* every other node holds none of them.
C9_DestroyRemovesSubtree ==
    (last.op = "Destroy" /\ proc = "running" /\ last.old # Nil) =>
        /\ \A x \in last.sub : parent[x] = Nil /\ GetChildren(Heap, x) = <<>>
        /\ \A n \in Allocated \ last.sub :
              ~Cyclic(Heap, n) => Range(GetDescendants(Heap, n)) \cap last.sub = {}

\* C9 witness: the destroyed node was in a parent's list and had a descendant.
C9_Witness ==
    /\ last.op = "Destroy" /\ proc = "running"
    /\ last.old # Nil /\ IsBaseInstance(last.old)
    /\ Cardinality(last.sub) >= 2
    /\ parent[last.a] = Nil

\* Same shape, class tags and names, position by position and in child order.
RECURSIVE SameTree(_, _, _)
SameTree(h, x, y) ==
    /\ h.className[x] = h.className[y]
    /\ h.name[x] = h.name[y]
    /\ Len(h.children[x]) = Len(h.children[y])
    /\ \A i \in 1..Len(h.children[x]) : SameTree(h, h.children[x][i], h.children[y][i])

\* C10: Clone() returns the root of a subtree with the source's shape, class
\* tags, names and child order, sharing no node with the source.
C10_CloneIsomorphicAndDisjoint ==
    (last.op = "Clone" /\ proc = "running") =>
        /\ last.res # Nil
        /\ SameTree(Heap, last.a, last.res.node)
        /\ Subtree(Heap, last.res.node) \cap Subtree(Heap, last.a) = {}
        /\ Subtree(Heap, last.res.node) \cap last.sub = {}
        /\ Subtree(Heap, last.a) = last.sub

\* C10 witness: the cloned node is a Part with two children of different
\* classes and names.
C10_Witness ==
    /\ last.op = "Clone" /\ proc = "running"
    /\ kind[last.a] = "Part"
    /\ Len(children[last.a]) = 2
    /\ className[children[last.a][1]] # className[children[last.a][2]]
    /\ name[children[last.a][1]] # name[children[last.a][2]]
    /\ name[last.a] # className[last.a]

\* ------------------------------------------------------------------------
\* Network Manager: claims
\* ------------------------------------------------------------------------
Evs(h) == [i \in 1..Len(h) |-> h[i].ev]
AsFrames(q) == [i \in 1..Len(q) |-> Frame(q[i].t, q[i].s, q[i].p)]
FromConn(q, c) == SelectSeq(q, LAMBDA x : x.client = c)
IsPrefix(a, b) == Len(a) <= Len(b) /\ \A i \in 1..Len(a) : a[i] = b[i]

\* The event the server's loop for c holds while it waits to push it
Held(c) == IF rl[<<"S", c>>].pc = "push" THEN <<rl[<<"S", c>>].evt>> ELSE <<>>

\* The frames of c's events so far: handled, then queued, then held
Decoded(c) == AsFrames(FromConn(Evs(handled) \o events[0], c) \o Held(c))

\* C1: handlers are invoked only by the owning thread, when it takes an event
\* from the queue; no receive loop and no accept loop is ever inside a
\* handler, and no two invocations are in progress at once.
C1_HandlersOnlyFromConsumer ==
    /\ [](inHandler \subseteq {Main} /\ Cardinality(inHandler) <= 1)
    /\ [][inHandler' # inHandler /\ inHandler' # {} =>
            /\ cons.pc = "drain"
            /\ events[0] # <<>>
            /\ cons'.ev = Head(events[0])
            /\ events'[0] = Tail(events[0])
            /\ rl' = rl /\ clients' = clients /\ link' = link]_vars

\* The owning thread is inside its second handler while the loop of another
\* connection holds an event.
C1_Witness ==
    /\ inHandler = {Main}
    /\ Len(handled) >= 2
    /\ \E c \in Conns : c # cons.ev.client /\ rl[<<"S", c>>].pc = "push"

\* The frame layout: big-endian length, type, subtype, payload
Layout(f) ==
    LET n == 2 + Len(f.p)
    IN  <<(n \div (256 * 256 * 256)) % 256, (n \div (256 * 256)) % 256,
          (n \div 256) % 256, n % 256, f.t, f.s>> \o f.p

RECURSIVE Flat(_)
Flat(fs) == IF fs = <<>> THEN <<>> ELSE Layout(Head(fs)) \o Flat(Tail(fs))

\* C4: the bytes SendPacket writes are the layout of its frames, one after
\* the other, and the server's loop decodes them into the same frames, one
\* event for each, the empty payload included.
C4_FramingRoundTrip ==
    /\ IsPrefix(upLog[1], Flat(sent[1]))
    /\ snd[1].step = 0 => upLog[1] = Flat(sent[1])
    /\ IsPrefix(Decoded(1), sent[1])
    /\ \A i \in 1..Len(pushed) : pushed[i].client = 1
    /\ snd[1].step = 0 /\ up[1] = <<>> /\ rl[<<"S", 1>>].pc = "header"
          => Decoded(1) = sent[1]

\* The server holds events for (7, 3, "abc") and for a frame with no payload.
C4_Witness ==
    /\ \E i \in 1..Len(pushed) :
          pushed[i] = [t |-> 7, s |-> 3, p |-> <<97, 98, 99>>, client |-> 1]
    /\ \E i \in 1..Len(pushed) : pushed[i].p = <<>>

\* The frames a peer wrote in full before its first malformed header or cut frame
RECURSIVE GoodPrefix(_)
GoodPrefix(fs) ==
    IF fs = <<>> \/ Head(fs).t < 0 THEN <<>> ELSE <<Head(fs)>> \o GoodPrefix(Tail(fs))

\* C5: a loop that read a length below 2 has closed its connection and has
\* returned; the events of a connection are the frames its peer wrote in
\* full before any malformed header, and the payload of an event has the
\* length read minus 2.
C5_InvalidLengthEndsConnection ==
    \A c \in Conns :
        LET e == <<"S", c>>
        IN  /\ rl[e].why = "length" => rl[e].pc = "done" /\ srvShut[c]
            /\ IsPrefix(Decoded(c), GoodPrefix(sent[c]))
            /\ rl[e].pc = "push" =>
                  rl[e].bodyLen >= 2 /\ Len(rl[e].evt.p) = rl[e].bodyLen - 2

\* The peer wrote a frame, a malformed header and a frame; the loop returned
\* on the header, with one event pushed.
C5_Witness ==
    /\ rl[<<"S", 1>>].why = "length"
    /\ Len(sent[1]) = 3 /\ sent[1][1].t >= 0 /\ sent[1][2].t = -1 /\ sent[1][3].t >= 0
    /\ Len(pushed) = 1

\* The server has the ping handler; the client has connected and has then
\* sent (0, 0, "ping").
PingScenario ==
    /\ Lookup([t |-> 0, s |-> 0]) = "ping"
    /\ Len(sent[1]) >= 2
    /\ sent[1][2] = Frame(0, 0, Ping)

PingEvent == [t |-> 0, s |-> 0, p |-> Ping, client |-> 1]
PongEvent == [t |-> 1, s |-> 0, p |-> Pong, client |-> 0]

C7_Backpressure ==
    /\ [](/\ \A m \in Mgrs : Len(events[m]) <= capacity
          /\ pushed = Evs(handled) \o events[0]
          /\ \A i, j \in 1..Len(pushed) : pushed[i] = pushed[j] => i = j
          /\ \A i \in 1..Len(pushed) :
                Frame(pushed[i].t, pushed[i].s, pushed[i].p) \in Range(sent[pushed[i].client])
          /\ \A e \in ServerRLs :
                rl[e].pc = "push" /\ Len(events[0]) < capacity => ENABLED RLPush(e))
    /\ [][\A e \in ServerRLs :
            rl[e].pc = "push" /\ rl'[e].pc # "push" =>
                /\ Len(events[0]) < capacity
                /\ events'[0] = Append(events[0], rl[e].evt)]_vars

\* Capacity 1: the owning thread took one connection's event, the other
\* connection's event is stored, and a third is held by a loop that waits.
C7_Witness ==
    /\ capacity = 1
    /\ Len(handled) = 1
    /\ Len(events[0]) = 1
    /\ events[0][1].client # handled[1].ev.client
    /\ \E e \in ServerRLs : rl[e].pc = "push"

\* C8: the events of a connection, handled, queued or held, are the first
\* frames its peer sent, in the order it sent them; the owning thread gives
\* InvokeHandler the head of the queue each time.
C8_Ordering ==
    /\ [](\A c \in Conns : IsPrefix(Decoded(c), sent[c]))
    /\ [][handled' # handled =>
            /\ events[0] # <<>>
            /\ handled' = Append(handled, [ev |-> Head(events[0]), h |-> Lookup(Head(events[0]))])
            /\ events'[0] = Tail(events[0])]_vars

\* Two frames of one connection were handled, with a frame of another
\* connection between them.
C8_Witness ==
    /\ Len(handled) = 3
    /\ handled[1].ev.client = handled[3].ev.client
    /\ handled[2].ev.client # handled[1].ev.client
    /\ handled[1].ev.p[1] < handled[3].ev.p[1]

\* ------------------------------------------------------------------------
\* Properties of the factory
\* ------------------------------------------------------------------------
\* C11: for a registered class, the node Create returns reports the registered
\* name as its class name, whatever Go type the constructor built and whatever
\* fields it left unset. (GetChildren returns a fresh non-nil copy in every
\* case, so the class name is the observable half.)
C11_CreateBackfillsEveryKind ==
    (factory.op = "Create" /\ factory.out = "node" /\ factory.ctor.obj.className = "")
        => factory.obj.className = factory.cls

\* C18: Create and CreateNamed return none when the class is not registered
\* and when the constructor fails, a nil pointer wrapped as an Instance
\* included; they never hand out a node without a payload; otherwise
\* CreateNamed returns the node with the name given. (A call that panics
\* hands out nothing and is let pass here.)
C18_FailedConstructionGivesNone ==
    factory.op \in {"Create", "CreateNamed"} =>
        /\ (factory.cls # "Tool" \/ factory.ctor.ret # "node")
              => factory.out \in {"nil", "panic"}
        /\ factory.out # "typednil"
        /\ (factory.op = "CreateNamed" /\ factory.out = "node")
              => factory.obj.name = factory.nm

\* ------------------------------------------------------------------------
\* Properties of the manager's root and of FindByPath
\* ------------------------------------------------------------------------
\* The writer has just looked up a non-empty path on a manager with a root.
LookedUp == last.op = "FindByPath" /\ proc = "running" /\ last.path # <<>> /\ root # Nil

\* FindByPath(r + "." + p), FindByPath(p) and the walk from the root by
\* successive FindFirstChild calls on the segments of p give the same node
\* (Nil as soon as a segment has no match).
SameNodeThreeWays(p) ==
    /\ FindByPathOp(Heap, root, Dotted(Str(name[root.node]), p)) = last.res
    /\ last.res = Descend(Heap, root, Split(p))

C19_GetRootCompletes ==
    last.op = "GetRoot" => (proc = "running" /\ last.res # Nil /\ last.res = root)

\* ------------------------------------------------------------------------
\* Properties of reparenting
\* ------------------------------------------------------------------------
\* C13: a.SetParent(P) with P already a's parent leaves P.GetChildren() as it
\* was, in membership and in order.
C13_NoOpMoveKeepsChildren ==
    [][\A a \in NodeIds :
          (/\ last'.op = "SetParent" /\ last'.a = a /\ proc' = "running"
           /\ parent[a] # Nil /\ last'.ref = parent[a])
          => GetChildren(Heap, parent[a].node)' = GetChildren(Heap, parent[a].node)]_vars

\* The reader holds a snapshot of the old and of the new parent of the move,
\* taken with no step of the writer between the two.
SnapshotsAtOnePoint ==
    /\ Len(reader) = 2
    /\ reader[1].at = reader[2].at

\* C14: a reader that snapshots the old and the new parent's GetChildren()
\* while the writer is inside A.SetParent(New) finds A in exactly one of the
\* two lists. Stated for the reader most favourable to the code, whose two
\* snapshots are taken at one point of the call.
C14_ReaderFindsNodeInExactlyOneList ==
    SnapshotsAtOnePoint
        => Cardinality({i \in 1..2 : Count(reader[i].kids, sp.a) > 0}) = 1

\* ------------------------------------------------------------------------
\* Properties of shutdown, sending and routing
\* ------------------------------------------------------------------------
\* C15: no receive loop that holds a decoded frame executes its push on a
\* closed queue (the send on a closed channel that ends the process).
C15_NoPushOnClosedQueue ==
    \A e \in RLs : ~(rl[e].pc = "panic" /\ rl[e].why = "closed")

\* C17: a read or write failure on a socket ends that connection alone: the
\* manager it belongs to is not cancelled and its event queue is not closed.
\* The application of a client manager never calls Close here, so whatever
\* cancels or closes a client manager is the manager's own error handling.
C17_FailureEndsOnlyTheConnection ==
    \A c \in Conns : ~cancelled[c] /\ ~closed[c]

\* C16: with several tasks calling SendPacket at once on the dialed
\* connection or on an accepted connection's handle, the bytes written to the
\* socket are the layouts of whole frames one after the other, in the order
\* the senders took the mutex, followed at most by the part written so far of
\* the frame whose sender holds the mutex.
C16_WholeFramesOnTheWire ==
    \A c \in Conns :
        /\ IsPrefix(upLog[c], Flat(sent[c]))
        /\ IsPrefix(down[c], Flat(replies[c]))
        /\ (sendMu[NmMu(c)] = Free /\ snd[c].step = 0) => upLog[c] = Flat(sent[c])
        /\ sendMu[CcMu(c)] = Free => down[c] = Flat(replies[c])

\* On the accepted connection's handle, a task is between the second and the
\* third write of its frame while another task has called SendPacket and
\* waits for the mutex.
C16_Witness ==
    \E t1 \in Tasks, t2 \in Tasks :
        /\ tasks[t1].mu = CcMu(1) /\ tasks[t1].st = "sending" /\ tasks[t1].step = 3
        /\ tasks[t2].mu = CcMu(1) /\ tasks[t2].st = "called"
        /\ sendMu[CcMu(1)] = Task(t1)

\* The number of events from connection c the ping handler was called for
Replied(c) ==
    Cardinality({i \in 1..Len(handled) : handled[i].ev.client = c /\ handled[i].h = "ping"})

\* The layout of n frames f
RECURSIVE Copies(_, _)
Copies(f, n) == IF n = 0 THEN <<>> ELSE Layout(f) \o Copies(f, n - 1)

\* C20: every event of an accepted connection's loop carries the handle of the
\* connection its frame arrived on; every event of a client manager carries
\* none; and a SendPacket on an event's handle writes to that connection's
\* socket only: a socket receives bytes only while the handler runs for an
\* event of its own connection, and what a bare peer has been sent is one
\* reply for each of its own events handled, never one for another peer's.
C20_RepliesRouteToOrigin ==
    /\ [](/\ \A i \in 1..Len(pushed) :
               /\ pushed[i].client \in Conns
               /\ Frame(pushed[i].t, pushed[i].s, pushed[i].p)
                     \in Range(sent[pushed[i].client])
          /\ \A c \in Conns :
               /\ \A i \in 1..Len(events[c]) : events[c][i].client = 0
               /\ rl[<<"C", c>>].evt.client = 0
               /\ app[c] = "raw" => IsPrefix(down[c], Copies(PingReply, Replied(c))))
    /\ [][\A c \in Conns :
            Len(down'[c]) > Len(down[c]) => (cons.pc = "handler" /\ cons.ev.client = c)]_vars

\* The handler has run for an event of each connection; the bare peer of
\* connection 2 has been sent one reply, and the client manager of
\* connection 1 holds the reply to its own ping as an event with no handle.
C20_Witness ==
    /\ Replied(1) = 1
    /\ Replied(2) = 1
    /\ down[2] = Layout(PingReply)
    /\ \E k \in 1..Len(events[1]) : events[1][k] = PongEvent

\* ------------------------------------------------------------------------
\* Dispatch without a handler
\* ------------------------------------------------------------------------
\* The consumer takes the head of the server's queue in this step.
Dispatches == cons.pc = "drain" /\ events[0] # <<>> /\ Len(handled') = Len(handled) + 1

\* C21: when the consumer dispatches an event whose (type, subtype) has no
\* handler in nm.handlers (never registered, or unregistered), no handler is
\* invoked, nothing of the manager or of the tree changes but the queue, and
\* the consumer stays in its drain loop; an event dispatched later whose pair
\* has a handler is given to that handler.
C21_NoHandlerIsDiscarded ==
    /\ [][Dispatches =>
            LET ev == Head(events[0])
                k == pktKey(ev.t, ev.s)
            IN  /\ events'[0] = Tail(events[0])
                /\ handled'[Len(handled')].ev = ev
                /\ IF k \in DOMAIN handlers
                   THEN /\ handled'[Len(handled')].h = handlers[k]
                        /\ Main \in inHandler'
                        /\ cons'.pc = "handler" /\ cons'.ev = ev
                   ELSE /\ handled'[Len(handled')].h = "none"
                        /\ inHandler' = inHandler
                        /\ cons' = cons
                        /\ UNCHANGED <<handlers, clients, listening, link, srvShut, cliShut,
                                       up, down, rl, cancelled, closeVars, sendVars, treeVars>>]_vars
    /\ [](cons.pc = "handler" => Main \in inHandler /\ Lookup(cons.ev) # "none")

\* The consumer has discarded an event of a pair that was never registered,
\* has then given a ping to the ping handler, and after main unregistered the
\* ping handler has discarded a ping and is in its drain loop.
C21_Witness ==
    /\ Len(handled) = 3
    /\ handled[1].ev.t = 2 /\ handled[1].h = "none"
    /\ handled[2].ev.t = 0 /\ handled[2].h = "ping"
    /\ handled[3].ev.t = 0 /\ handled[3].h = "none"
    /\ cons.pc = "drain"

\* ------------------------------------------------------------------------
\* Identifiers
\* ------------------------------------------------------------------------
\* C22: any two nodes made by the factory have different identifiers from
\* their creation on, and no call changes the identifier of a node.
C22_IdsUniqueAndFixed ==
    /\ [](\A a \in Allocated, b \in Allocated : a # b => localId[a] # localId[b])
    /\ [][\A a \in Allocated : localId'[a] = localId[a]]_vars

\* ------------------------------------------------------------------------
\* Concurrent reparenting
\* ------------------------------------------------------------------------
\* The tasks of S are inside SetParent and each waits for a mutex that a task
\* of S holds.
WaitCycle(S) ==
    /\ S # {}
    /\ \A t \in S : IF Wants(t) = 0 THEN FALSE ELSE nodeMu[Wants(t)] \in S

\* C23: with SetParent calls running at the same time on distinct nodes, no
\* set of tasks is ever such that each holds one node's mutex and waits for a
\* mutex held by another of them, so that every call can go on to its return.
C23_NoLockCycle == \A S \in SUBSET Movers : ~WaitCycle(S)

\* ------------------------------------------------------------------------
\* The order and the end of Close
\* ------------------------------------------------------------------------
\* C24: Close cancels first, then closes the sockets, then closes the event
\* queue, then waits: once it waits or has returned the context is cancelled
\* and the sockets are closed, and when it has returned the event queue is
\* closed and every receive loop and the accept loop have finished.
C24_CloseInOrder ==
    \A m \in Mgrs :
        /\ closing[m] \in {"wait", "returned"} =>
              /\ cancelled[m]
              /\ m = 0 => (~listening /\ \A c \in clients : srvShut[c])
              /\ (m # 0 /\ link[m] # "free") => cliShut[m]
        /\ closing[m] = "returned" =>
              /\ closed[m]
              /\ \A e \in LoopsOf(m) : rl[e].pc \in {"off", "done"}

\* C25: once Close has been called on a manager, in whatever state its loops
\* and its queue are, every receive loop of the manager ends and Close returns.
C25_CloseTerminates ==
    \A m \in {0, 1} :
        (closing[m] # "none") ~>
            (closing[m] = "returned" /\ \A e \in LoopsOf(m) : rl[e].pc \in {"off", "done"})

\* ------------------------------------------------------------------------
\* Connect
\* ------------------------------------------------------------------------
\* C26: a manager that has called Connect has one outbound connection, the
\* first frame it sends on it is the handshake (type 0, subtype 1, payload the
\* session key), and its receive loop runs only when the bytes of the
\* handshake have all been written.
C26_HandshakeBeforeLoop ==
    \A c \in Conns :
        app[c] \in {"handshake", "ready", "closing"} =>
            /\ link[c] # "free"
            /\ sent[c] # <<>>
            /\ sent[c][1].t = 0 /\ sent[c][1].s = 1 /\ sent[c][1].p \in Keys
            /\ rl[<<"C", c>>].pc # "off" => IsPrefix(FrameBytes(sent[c][1]), upLog[c])

\* ------------------------------------------------------------------------
\* Calls on a destroyed node
\* ------------------------------------------------------------------------
\* C27: when Destroy has returned for a node (the receiver, or a node of its
\* subtree, destroyed by the recursion), a SetParent or a second Destroy
\* called next on that node either does not return or leaves every parent
\* reference and every child list as it was. Stated for the call that follows
\* the Destroy at once, and with any call that does not return let pass.
C27_DestroyedNodeStaysOut ==
    [][(/\ last.op = "Destroy" /\ proc = "running"
        /\ last'.op \in {"SetParent", "Destroy"}
        /\ last'.a \in last.sub)
       => (proc' # "running" \/ (parent' = parent /\ children' = children))]_vars

\* ------------------------------------------------------------------------
\* The recursive reads
\* ------------------------------------------------------------------------
\* The nodes strictly below n
Below(n) == Subtree(Heap, n) \ {n}

\* The first j - 1 nodes of the list cs with all that is below them
Before(cs, j) == ReachFrom(Heap, {cs[i] : i \in 1..(j - 1)})

\* C28: the slice GetDescendants() returned for a node n holds the nodes
\* strictly below n, each once, and not n; the first child of a node comes
\* right after the node (at the front for n's own), and each further child
\* right after the last descendant of the child before it.
C28_DescendantsInPreOrder ==
    (last.op = "GetDescendants" /\ proc = "running") =>
        LET n == last.a
            r == last.out
        IN  /\ Range(r) = Below(n)
            /\ Len(r) = Cardinality(Below(n))
            /\ Count(r, n) = 0
            /\ \A x \in Subtree(Heap, n) :
                 \A j \in 1..Len(children[x]) :
                    IndexOf(r, children[x][j])
                        = (IF x = n THEN 0 ELSE IndexOf(r, x)) + 1
                              + Cardinality(Before(children[x], j))

\* GetDescendants() returned for a node with two children of which the first
\* has a child of its own, so that pre-order and level order differ.
C28_Witness ==
    /\ last.op = "GetDescendants" /\ proc = "running"
    /\ Len(children[last.a]) = 2
    /\ Len(children[children[last.a][1]]) = 1
    /\ Len(last.out) = 3
    /\ last.out[2] = children[children[last.a][1]][1]
    /\ className[last.out[1]] # className[last.out[3]]

\* The nodes of n's subtree, n first, whose class tag is cls, in pre-order
OfClass(n, cls) ==
    SelectSeq(<<n>> \o GetDescendants(Heap, n), LAMBDA x : className[x] = cls)

\* C29: the slice GetAllOfType(c) returned for a node n holds, in pre-order
\* and each once, the nodes among n and its descendants whose class tag is c,
\* and every element is a node, none is the nil interface.
C29_AllOfTypeAreTheNodes ==
    (last.op = "GetAllOfType" /\ proc = "running") =>
        /\ Len(last.out) = Len(OfClass(last.a, last.cls))
        /\ \A i \in 1..Len(last.out) :
              last.out[i] # Nil /\ last.out[i].node = OfClass(last.a, last.cls)[i]

\* C30: the slice GetRenderables() returned for a node n holds, in pre-order
\* and each once, the nodes of n's subtree whose class tag is "Part", be they
\* made by the factory or by Clone().
C30_RenderablesAreTheParts ==
    (last.op = "GetRenderables" /\ proc = "running") =>
        /\ Len(last.out) = Len(OfClass(last.a, "Part"))
        /\ \A i \in 1..Len(last.out) : last.out[i].node = OfClass(last.a, "Part")[i]

\* ------------------------------------------------------------------------
\* The parent relation
\* ------------------------------------------------------------------------
\* The nodes the parent references of the nodes of S point to
ParentNodes(S) == {parent[n].node : n \in {m \in S : parent[m] # Nil}}

\* The nodes met by following parent references from the nodes of S, S included
RECURSIVE UpFrom(_)
UpFrom(S) ==
    LET T == S \cup ParentNodes(S)
    IN  IF T = S THEN S ELSE UpFrom(T)

\* The parent of n, the parent of that node, ...
AncestorsOf(n) == UpFrom(ParentNodes({n}))

\* C31: whatever SetParent calls were made, no node is its own parent or its
\* own ancestor: following parent references from a node never leads back to
\* that node.
C31_ParentRelationAcyclic ==
    \A n \in Allocated : n \notin AncestorsOf(n)

\* ------------------------------------------------------------------------
\* A second Close
\* ------------------------------------------------------------------------
\* C32: a Close called on a manager that is closed already (by main, or by the
\* Connect whose handshake could not be written) returns without failure and
\* the event queue is not closed a second time: no close(nm.Events) is ever
\* executed on the closed queue.
C32_SecondCloseIsHarmless ==
    \A m \in Mgrs : again[m].go # "panic"

\* ------------------------------------------------------------------------
\* The client registry
\* ------------------------------------------------------------------------
\* C33: outside shutdown (the server's context is not cancelled) the client
\* registry of the server holds only connections whose receive loop is still
\* running: a loop that has returned, for whatever reason, has taken its
\* connection out of the registry.
C33_RegistryHoldsRunningLoops ==
    ~cancelled[0] =>
        \A c \in clients : rl[<<"S", c>>].pc \notin {"done", "panic"}

\* ------------------------------------------------------------------------
\* Full names and paths
\* ------------------------------------------------------------------------
\* The chain of parent references of n ends at the manager's root
EndsAtRoot(n) ==
    /\ root # Nil
    /\ parent[root.node] = Nil
    /\ root.node \in UpFrom({n})

\* The nodes that are children of p, by their parent reference or by p's list
ChildrenOf(p) ==
    {x \in Allocated : parent[x] # Nil /\ parent[x].node = p} \cup Range(children[p])

\* No two children of a node have the same name, and no child list holds a
\* node twice
SiblingNamesUnique ==
    \A p \in Allocated :
        /\ \A x \in ChildrenOf(p), y \in ChildrenOf(p) : x # y => name[x] # name[y]
        /\ \A x \in Range(children[p]) : Count(children[p], x) = 1

\* No child of the root has the root's name
NoChildNamedAsRoot ==
    root # Nil => \A x \in ChildrenOf(root.node) : name[x] # name[root.node]

\* C34: for a node n whose chain of parent references ends at the manager's
\* root, with unique sibling names and no child of the root named as the root
\* (no name of the model holds a dot), FindByPath(n.GetFullName()) returns n,
\* whatever SetParent calls placed n there.
C34_PathRoundTrip ==
    (/\ last.op = "FindByFullName" /\ proc = "running"
     /\ EndsAtRoot(last.a) /\ SiblingNamesUnique /\ NoChildNamedAsRoot)
    => (last.res # Nil /\ last.res.node = last.a)

\* ------------------------------------------------------------------------
\* Delivery
\* ------------------------------------------------------------------------
\* The k-th frame sent was written in full on a connection before any
\* malformed header of that connection
SentFrame(k) == \E c \in Conns : NetFrame(k) \in Range(GoodPrefix(sent[c]))

\* How many of the events of the sequence q carry the k-th frame
Times(q, k) == Cardinality({i \in 1..Len(q) : q[i].p = <<k>>})

\* C35: with no shutdown and a consumer that keeps draining, every
\* well-formed frame written on a live connection is in the end pushed as one
\* event and given to InvokeHandler once; at no time has a frame been pushed
\* or dispatched twice, and what was dispatched was pushed, and what was
\* pushed was sent as a well-formed frame on a live connection.
C35_EveryFrameDispatchedOnce ==
    /\ [](\A k \in 1..MaxFrames :
            /\ Times(pushed, k) <= 1
            /\ Times(Evs(handled), k) <= Times(pushed, k)
            /\ Times(pushed, k) = 1 => SentFrame(k))
    /\ \A k \in 1..MaxFrames :
          SentFrame(k) ~> (Times(pushed, k) = 1 /\ Times(Evs(handled), k) = 1)

\* Capacity 1: frames of both connections were sent and every one of them
\* has been dispatched once, the queue is empty again, and the second
\* connection has since been ended by a malformed header.
C35_Witness ==
    /\ capacity = 1
    /\ cons.pc = "drain" /\ events[0] = <<>>
    /\ \E i, j \in 1..Len(handled) : handled[i].ev.client = 1 /\ handled[j].ev.client = 2
    /\ \A k \in 1..MaxFrames : SentFrame(k) => Times(Evs(handled), k) = 1
    /\ rl[<<"S", 2>>].why = "length"

====
